---- MODULE Spec2Model ----
(***************************************************************************)
(* Verification model of the KeniBox forensic tool: the Electron main      *)
(* process (IPC handlers), the renderer (probe buttons, export             *)
(* accumulator) and the two variants of utils/systemUtils.js.              *)
(*                                                                         *)
(* Variant A is the first systemUtils module of src/src/utils/             *)
(* systemUtils.js (lines 1-4293), variant B the second (lines 4294-6581).  *)
(***************************************************************************)
EXTENDS Integers, Sequences, FiniteSets, Bags, TLC

VARIABLES
    \* ---- renderer (Spec) ----
    globalResults,   \* renderer.js:5, the export accumulator: key -> last stored reply
    active,          \* per time-window button group, the buttons carrying class 'active'
    panel,           \* what each result panel shows
    sent,            \* bag of ipcRenderer.invoke calls whose reply has not arrived
    clicks,          \* number of button clicks so far
    lastCompleted,   \* history: key -> value of the most recently completed invocation
    exported,        \* history: the exportData last built by the export button
    exportedFrom,    \* history: lastCompleted as it was when exportData was built
    lastClicked,     \* history: per time-window group, the button clicked last (none: {})
    resultWindow,    \* history: per time-window group, the window whose reply is shown / stored
    disk,            \* files written by the export-results handler: path -> content
    \* ---- main process (SpecMain) ----
    handled,         \* the last handler run: channel, awaited call's outcome, settled promise
    \* ---- getOriginalNameGuess (SpecNames) ----
    givenName,       \* the file name passed as argument
    guess,           \* variant -> the value it returned
    \* ---- shouldSkipDirectory (SpecSkip) ----
    givenPath,       \* the directory path passed as argument
    skip,            \* variant -> the value it returned
    \* ---- multi-source probes (SpecProbes) ----
    call,            \* the systemUtils function called and its variant
    platform,        \* process.platform
    env,             \* which environment variables are set
    sources,         \* source -> what the OS command or directory yields
    returned,        \* the outcome of the call, once it has settled
    \* ---- directory walks (SpecWalk) ----
    fsTree,          \* the files on the drive
    scanned,         \* scanner -> the list it returned
    \* ---- mod scanners (SpecMods) ----
    modsFolder,      \* the file names in the mods folder, in listing order
    flagged,         \* function name -> the entries it reported
    \* ---- recursive walks, step by step (SpecSteps) ----
    structure,       \* the directory structure below the search root
    walker,          \* the walk: its function and variant
    stack,           \* the calls of the walk that have not returned
    walkResult,      \* the entries pushed to result so far
    deepestRead,     \* history: the greatest depth at which a directory was listed
    walkStatus,      \* idle, running or returned
    \* ---- checkScreenRecording (SpecRecording) ----
    running,         \* the process, service or device that is running, and the platform
    recordingStatus, \* variant -> the {recording, applications} it returned
    \* ---- browser-history inspection (SpecHistory) ----
    histories,       \* the browser history files that exist
    cheatScan,       \* variant -> the temporary files left and the sites detected
    \* ---- files created and deleted (SpecFiles) ----
    fsFiles,         \* the files that exist: the application, the shell history, the temporary directory
    fileOps,         \* history: the file operations performed so far
    spawned,         \* the self-destruct scripts started and not yet run
    clock,           \* Date.now(), counted in readings
    \* ---- openBrowserHistory (SpecOpen) ----
    detected,        \* the browsers that detectBrowsers returned and which one is the default
    broken,          \* the browsers whose history page cannot be opened
    brokenGeneric,   \* the generic commands that fail
    opening,         \* variant -> the attempts made and the outcome reported
    \* ---- overlapping browser-history inspections (SpecOverlap) ----
    runs,            \* invocation -> its position, its temporary path, the command output, the sites found
    tempDir,         \* the files in os.tmpdir()
    chromeHistory,   \* the Chrome history file and what a query on a copy of it prints
    runVariant,      \* the systemUtils variant in use
    millis,          \* Date.now()
    \* ---- detectStoppedServices (SpecServices) ----
    osServices,      \* the services that Get-Service lists
    defenderStarts,  \* the Start values of the *Defender* services in the registry
    stoppedReply,    \* variant -> the value detectStoppedServices returned
    \* ---- the export-results handler (SpecMain) ----
    exportRun,       \* history: the data, dialog outcome, write outcome and files of the last export-results run
    \* ---- the 'open location' links (SpecLinks) ----
    location,        \* the path of the clicked link and what opening it does
    linkCall,        \* the click listener's position and the reply of 'open-file-location'
    linkText,        \* the innerText of the link
    \* ---- detectBrowsers (SpecDetect) ----
    installedPaths,  \* the browser paths that exist
    osDefault,       \* the name of the operating system's default browser
    detectedList,    \* variant -> the list detectBrowsers returned
    \* ---- click handlers of the list probes (SpecPanel) ----
    views,           \* probe -> what its panel shows
    unsettled,        \* bag of the probes whose invoke has not settled
    presses,         \* number of clicks so far
    replies          \* history: probe -> the reply its last continuation received

rendererVars == <<globalResults, active, panel, sent, clicks,
                  lastCompleted, exported, exportedFrom, lastClicked, resultWindow>>

mainVars == <<handled>>

appVars == <<rendererVars, disk, mainVars>>

namesVars == <<givenName, guess>>

skipVars == <<givenPath, skip>>

probeVars == <<call, platform, env, sources, returned>>

walkVars == <<fsTree, scanned>>

modsVars == <<modsFolder, flagged>>

stepsVars == <<structure, walker, stack, walkResult, deepestRead, walkStatus>>

recordingVars == <<running, recordingStatus>>

historyVars == <<histories, cheatScan>>

filesVars == <<fsFiles, fileOps, spawned, clock>>

openVars == <<detected, broken, brokenGeneric, opening>>

overlapVars == <<runs, tempDir, chromeHistory, runVariant, millis>>

servicesVars == <<osServices, defenderStarts, stoppedReply>>

exportVars == <<exportRun>>

linksVars == <<location, linkCall, linkText>>

detectVars == <<installedPaths, osDefault, detectedList>>

panelVars == <<views, unsettled, presses, replies>>

extVars == <<modsVars, stepsVars, recordingVars, historyVars, filesVars, openVars, overlapVars, servicesVars, exportVars, linksVars, detectVars, panelVars>>

utilVars == <<namesVars, skipVars, probeVars, walkVars, extVars>>

extVarsNotMods == <<stepsVars, recordingVars, historyVars, filesVars, openVars, overlapVars, servicesVars, exportVars, linksVars, detectVars, panelVars>>

extVarsNotSteps == <<modsVars, recordingVars, historyVars, filesVars, openVars, overlapVars, servicesVars, exportVars, linksVars, detectVars, panelVars>>

extVarsNotRecording == <<modsVars, stepsVars, historyVars, filesVars, openVars, overlapVars, servicesVars, exportVars, linksVars, detectVars, panelVars>>

extVarsNotHistory == <<modsVars, stepsVars, recordingVars, filesVars, openVars, overlapVars, servicesVars, exportVars, linksVars, detectVars, panelVars>>

extVarsNotFiles == <<modsVars, stepsVars, recordingVars, historyVars, openVars, overlapVars, servicesVars, exportVars, linksVars, detectVars, panelVars>>

extVarsNotOpen == <<modsVars, stepsVars, recordingVars, historyVars, filesVars, overlapVars, servicesVars, exportVars, linksVars, detectVars, panelVars>>

extVarsNotOverlap == <<modsVars, stepsVars, recordingVars, historyVars, filesVars, openVars, servicesVars, exportVars, linksVars, detectVars, panelVars>>

extVarsNotServices == <<modsVars, stepsVars, recordingVars, historyVars, filesVars, openVars, overlapVars, exportVars, linksVars, detectVars, panelVars>>

extVarsNotExport == <<modsVars, stepsVars, recordingVars, historyVars, filesVars, openVars, overlapVars, servicesVars, linksVars, detectVars, panelVars>>

extVarsNotLinks == <<modsVars, stepsVars, recordingVars, historyVars, filesVars, openVars, overlapVars, servicesVars, exportVars, detectVars, panelVars>>

extVarsNotDetect == <<modsVars, stepsVars, recordingVars, historyVars, filesVars, openVars, overlapVars, servicesVars, exportVars, linksVars, panelVars>>

extVarsNotPanel == <<modsVars, stepsVars, recordingVars, historyVars, filesVars, openVars, overlapVars, servicesVars, exportVars, linksVars, detectVars>>

vars == <<globalResults, active, panel, sent, clicks,
          lastCompleted, exported, exportedFrom, lastClicked, resultWindow, disk, handled,
          givenName, guess, givenPath, skip,
          call, platform, env, sources, returned, fsTree, scanned,
          modsFolder, flagged,
          structure, walker, stack, walkResult, deepestRead, walkStatus,
          running, recordingStatus,
          histories, cheatScan,
          fsFiles, fileOps, spawned, clock,
          detected, broken, brokenGeneric, opening,
          runs, tempDir, chromeHistory, runVariant, millis,
          osServices, defenderStarts, stoppedReply,
          exportRun,
          location, linkCall, linkText,
          installedPaths, osDefault, detectedList,
          views, unsettled, presses, replies>>

----------------------------------------------------------------------------
(* Bounds of the model *)

\* Button clicks in a run of the renderer.
MaxClicks == 2

\* Dot-separated parts of a file name.
MaxParts == 3

\* Components of a directory path below the drive.
MaxDepth == 3

\* Entries a source yields.
MaxFound == 2

\* Files on the drive.
MaxFiles == 3

\* Files in a mods folder.
MaxMods == 1

\* Directories below the search root, one inside the other.
MaxChain == 17

----------------------------------------------------------------------------
(* Renderer: probes, buttons and panels (src/src/renderer.js) *)

\* The keys the click handlers store under in globalResults.
ProbeKeys ==
    {"jarFiles", "extensionChanges", "deletedFiles", "executedJars",
     "usbStatus", "screenRecording", "minecraftCheats", "stoppedServices",
     "folderHistory", "executionHistory", "commandHistory", "minecraftFiles"}

\* preload.js: the channel each keniboxAPI function invokes.
ChannelOf ==
    [jarFiles         |-> "find-jar-files",
     extensionChanges |-> "check-extension-changes",
     deletedFiles     |-> "get-deleted-files",
     executedJars     |-> "get-executed-jars",
     usbStatus        |-> "check-usb-disconnection",
     screenRecording  |-> "check-screen-recording",
     minecraftCheats  |-> "detect-minecraft-cheats",
     stoppedServices  |-> "detect-stopped-services",
     folderHistory    |-> "get-folder-history",
     executionHistory |-> "get-execution-history",
     commandHistory   |-> "get-command-history",
     minecraftFiles   |-> "open-minecraft-files",
     browserHistory   |-> "open-browser-history",
     browserInfo      |-> "detect-browsers",
     export           |-> "export-results"]

\* The probes driven by a group of three time-window buttons.
TimeProbes == {"deletedFiles", "executedJars", "executionHistory"}

\* Buttons of each group as <<low, default, high>>.
ButtonsOf ==
    [deletedFiles     |-> <<30, 60, 120>>,
     executedJars     |-> <<1, 4, 24>>,
     executionHistory |-> <<1, 4, 12>>]

PanelKeys == ProbeKeys \cup {"browserHistory", "browserInfo"}

NoError == "undefined"
NoData  == "undefined"

\* What a systemUtils function can return (opaque payloads) or throw: every throw
\* statement of systemUtils.js throws an Error object carrying a message string.
Payloads == {"empty", "items"}
Messages == {"EACCES", "ENOENT"}

ErrorObjects == [message : Messages]

\* A value a handler resolves with: a probe result or the object {error: message}.
ResultValue(d) == [error |-> NoError, data |-> d]
ErrorValue(m)  == [error |-> m, data |-> NoData]

\* Outcomes of an awaited call: it returns a value or throws an Error.
Returns(v) == [throws |-> FALSE, value |-> v, error |-> [message |-> NoError]]
Throws(e)  == [throws |-> TRUE, value |-> ResultValue(NoData), error |-> e]

Outcomes ==
    {Returns(ResultValue(d)) : d \in Payloads} \cup {Throws(e) : e \in ErrorObjects}

Fulfilled(v) == [state |-> "fulfilled", value |-> v]
Rejected(e)  == [state |-> "rejected", value |-> ErrorValue(e.message)]

Empty == [k \in {} |-> "undefined"]
NoExport == [built |-> FALSE, results |-> Empty]

Request(key, arg, data) ==
    [channel |-> ChannelOf[key], key |-> key, arg |-> arg, data |-> data]

----------------------------------------------------------------------------
(* systemUtils.js: strings. A string is the sequence of its characters, so *)
(* that case folding, substring search, splitting and joining are computed. *)

UpperCase ==
    <<"A", "B", "C", "D", "E", "F", "G", "H", "I", "J", "K", "L", "M", "N", "O", "P", "Q", "R", "S", "T", "U", "V", "W", "X", "Y", "Z">>

LowerCase ==
    <<"a", "b", "c", "d", "e", "f", "g", "h", "i", "j", "k", "l", "m", "n", "o", "p", "q", "r", "s", "t", "u", "v", "w", "x", "y", "z">>

Digits == {"0", "1", "2", "3", "4", "5", "6", "7", "8", "9"}

\* The values null and undefined, which are no strings.
null == <<"null">>
undefined == <<"undefined">>

\* The lower-case letter of each upper-case letter.
lowerCaseOf ==
    [ch \in {UpperCase[k] : k \in 1..Len(UpperCase)} |->
        LowerCase[CHOOSE k \in 1..Len(UpperCase) : UpperCase[k] = ch]]

\* String.prototype.toLowerCase
toLowerCase(s) ==
    [i \in 1..Len(s) |->
        IF s[i] \in DOMAIN lowerCaseOf THEN lowerCaseOf[s[i]] ELSE s[i]]

\* String.prototype.includes (the receiver and the argument evaluated once)
includes(s, t) ==
    \E str \in {s}, searchString \in {t} :
        \E i \in 0..(Len(str) - Len(searchString)) :
            SubSeq(str, i + 1, i + Len(searchString)) = searchString

\* String.prototype.endsWith
endsWith(s, t) ==
    /\ Len(t) <= Len(s)
    /\ SubSeq(s, Len(s) - Len(t) + 1, Len(s)) = t

\* String.prototype.startsWith(t, i - 1): t occurs in s at position i.
startsWith(s, t, i) ==
    /\ i + Len(t) - 1 <= Len(s)
    /\ SubSeq(s, i, i + Len(t) - 1) = t

\* String.prototype.replace(/from/g, to) for a single character.
replaceAll(s, from, to) ==
    [i \in 1..Len(s) |-> IF s[i] = from THEN to ELSE s[i]]

\* String.prototype.indexOf for a single character (0 when absent).
indexOf(s, ch) ==
    IF \E i \in 1..Len(s) : s[i] = ch
    THEN CHOOSE i \in 1..Len(s) : s[i] = ch /\ \A j \in 1..(i - 1) : s[j] # ch
    ELSE 0

\* String.prototype.split for a single-character separator.
RECURSIVE split(_, _)
split(s, sep) ==
    LET i == indexOf(s, sep)
    IN  IF i = 0 THEN <<s>>
        ELSE <<SubSeq(s, 1, i - 1)>> \o split(SubSeq(s, i + 1, Len(s)), sep)

\* Array.prototype.join / path.join of already normalised segments.
RECURSIVE join(_, _)
join(parts, sep) ==
    IF Len(parts) = 0 THEN <<>>
    ELSE IF Len(parts) = 1 THEN parts[1]
    ELSE parts[1] \o <<sep>> \o join(Tail(parts), sep)

----------------------------------------------------------------------------
(* systemUtils.js: getOriginalNameGuess, both variants *)

\* The alternatives of doubleExtRegex, variant A (systemUtils.js:295).
HiddenExtensions ==
    {<<"j", "a", "r">>, <<"e", "x", "e">>, <<"d", "l", "l">>, <<"b", "a", "t">>, <<"v", "b", "s">>}

CoverExtensions ==
    {<<"t", "x", "t">>, <<"p", "n", "g">>, <<"j", "p", "g">>, <<"j", "p", "e", "g">>}

\* Variant A: /^(.+)\.(jar|exe|dll|bat|vbs)\.(txt|png|jpg|jpeg)$/i, then
\* match[1] + '.' + match[2], and null when the name does not match.
getOriginalNameGuessA(filename) ==
    LET lower   == toLowerCase(filename)
        matched == {m \in HiddenExtensions \X CoverExtensions :
                       /\ endsWith(lower, <<".">> \o m[1] \o <<".">> \o m[2])
                       /\ Len(filename) > Len(m[1]) + Len(m[2]) + 2}
    IN  IF matched = {} THEN null
        ELSE LET m      == CHOOSE x \in matched : TRUE
                 end1   == Len(filename) - (Len(m[1]) + Len(m[2]) + 2)
                 match1 == SubSeq(filename, 1, end1)
                 match2 == SubSeq(filename, end1 + 2, end1 + 1 + Len(m[1]))
             IN  match1 \o <<".">> \o match2

\* The words of variant B's rename pattern, in the order of the alternation
\* (systemUtils.js:4540).
RenameWords ==
    <<<<"o", "l", "d">>,
      <<"n", "e", "w">>,
      <<"b", "a", "k">>,
      <<"b", "a", "c", "k", "u", "p">>,
      <<"c", "o", "p", "y">>,
      <<"r", "e", "n", "a", "m", "e", "d">>,
      <<"c", "h", "a", "n", "g", "e", "d">>>>

\* \d{4}-\d{2}-\d{2} at position i.
datePatternAt(s, i) ==
    /\ i + 9 <= Len(s)
    /\ \A k \in 0..9 : IF k \in {4, 7} THEN s[i + k] = "-" ELSE s[i + k] \in Digits

\* Length of the match of /(\.|_)(old|new|...|\d{4}-\d{2}-\d{2})/ at position i,
\* 0 when there is none.
renameMatchAt(s, i) ==
    IF s[i] \notin {".", "_"} THEN 0
    ELSE IF \E k \in 1..Len(RenameWords) : startsWith(s, RenameWords[k], i + 1)
    THEN LET k == CHOOSE a \in 1..Len(RenameWords) :
                      /\ startsWith(s, RenameWords[a], i + 1)
                      /\ \A b \in 1..(a - 1) : ~startsWith(s, RenameWords[b], i + 1)
         IN  1 + Len(RenameWords[k])
    ELSE IF datePatternAt(s, i + 1) THEN 11
    ELSE 0

\* filename.replace(<rename pattern>, ''): the leftmost match is removed.
cleanName(filename) ==
    IF \E i \in 1..Len(filename) : renameMatchAt(filename, i) > 0
    THEN LET i == CHOOSE a \in 1..Len(filename) :
                      /\ renameMatchAt(filename, a) > 0
                      /\ \A b \in 1..(a - 1) : renameMatchAt(filename, b) = 0
         IN  SubSeq(filename, 1, i - 1)
                 \o SubSeq(filename, i + renameMatchAt(filename, i), Len(filename))
    ELSE filename

\* Variant B: the first and the last dot-separated part when there are more than
\* two parts, the cleaned name otherwise.
getOriginalNameGuessB(filename) ==
    LET parts == split(filename, ".")
    IN  IF Len(parts) > 2
        THEN parts[1] \o <<".">> \o parts[Len(parts)]
        ELSE cleanName(filename)

----------------------------------------------------------------------------
(* systemUtils.js: shouldSkipDirectory, both variants *)

skipDirsA ==
    <<<<"W", "i", "n", "d", "o", "w", "s">>,
      <<"P", "r", "o", "g", "r", "a", "m", " ", "F", "i", "l", "e", "s">>,
      <<"P", "r", "o", "g", "r", "a", "m", " ", "F", "i", "l", "e", "s", " ", "(", "x", "8", "6", ")">>,
      <<"P", "r", "o", "g", "r", "a", "m", "D", "a", "t", "a">>,
      <<"S", "y", "s", "t", "e", "m", " ", "V", "o", "l", "u", "m", "e", " ", "I", "n", "f", "o", "r", "m", "a", "t", "i", "o", "n">>,
      <<"$", "R", "e", "c", "y", "c", "l", "e", ".", "B", "i", "n">>,
      <<"n", "o", "d", "e", "_", "m", "o", "d", "u", "l", "e", "s">>,
      <<"A", "p", "p", "D", "a", "t", "a", "\\", "L", "o", "c", "a", "l", "\\", "T", "e", "m", "p">>,
      <<"R", "e", "c", "o", "v", "e", "r", "y">>,
      <<"C", "o", "n", "f", "i", "g", ".", "M", "s", "i">>,
      <<"$", "W", "I", "N", "D", "O", "W", "S", ".", "~", "B", "T">>,
      <<"$", "W", "i", "n", "R", "E", "A", "g", "e", "n", "t">>,
      <<"W", "i", "n", "d", "o", "w", "s", ".", "o", "l", "d">>,
      <<"D", "r", "i", "v", "e", "r", "S", "t", "o", "r", "e">>,
      <<"T", "e", "m", "p">>,
      <<"t", "m", "p">>>>

skipDirsB ==
    <<<<"W", "i", "n", "d", "o", "w", "s">>,
      <<"P", "r", "o", "g", "r", "a", "m", " ", "F", "i", "l", "e", "s">>,
      <<"P", "r", "o", "g", "r", "a", "m", " ", "F", "i", "l", "e", "s", " ", "(", "x", "8", "6", ")">>,
      <<"P", "r", "o", "g", "r", "a", "m", "D", "a", "t", "a">>,
      <<"S", "y", "s", "t", "e", "m", " ", "V", "o", "l", "u", "m", "e", " ", "I", "n", "f", "o", "r", "m", "a", "t", "i", "o", "n">>,
      <<"$", "R", "e", "c", "y", "c", "l", "e", ".", "B", "i", "n">>,
      <<"n", "o", "d", "e", "_", "m", "o", "d", "u", "l", "e", "s">>>>

\* The same function with the path left in its own letter case.
shouldSkipDirectoryCaseSensitiveA(directory) ==
    LET normalizedPath == replaceAll(directory, "\\", "/")
    IN  \E k \in 1..Len(skipDirsA) : includes(normalizedPath, toLowerCase(skipDirsA[k]))

\* Variant A: backslashes become slashes, the path is lower-cased, and the path
\* is skipped when it includes the lower-cased text of some entry.
shouldSkipDirectoryA(directory) ==
    LET normalizedPath == toLowerCase(replaceAll(directory, "\\", "/"))
    IN  \E k \in 1..Len(skipDirsA) : includes(normalizedPath, toLowerCase(skipDirsA[k]))

\* Variant B: the path is skipped when it includes the text of some entry.
shouldSkipDirectoryB(directory) ==
    \E k \in 1..Len(skipDirsB) : includes(directory, skipDirsB[k])

----------------------------------------------------------------------------
(* systemUtils.js: the multi-source probes *)

\* A timestamp in milliseconds; NaN is what new Date(text).getTime() gives for a
\* text that does not parse.
Time(ms) == [valid |-> TRUE, ms |-> ms]
NaN == [valid |-> FALSE, ms |-> 0]

\* One entry of a probe's list: the fields the dedupe and sort steps read.
Finding(p, t) == [name |-> p, path |-> p, time |-> t]

\* An event-log record that carries no Name property.
Nameless(t) == [name |-> undefined, path |-> undefined, time |-> t]

\* What a source (an OS command, a registry query, a directory) yields: its
\* entries, or a failure that the reading code catches.
Yields(found) == [ok |-> TRUE, found |-> found]
Fails == [ok |-> FALSE, found |-> <<>>]

\* The entries the code collects from a source.
collect(source) == IF source.ok THEN source.found ELSE <<>>

\* How a call settles.
Pending == [settled |-> FALSE, throws |-> FALSE, value |-> <<>>, error |-> NoError]
Returned(list) == [settled |-> TRUE, throws |-> FALSE, value |-> list, error |-> NoError]
Threw(message) == [settled |-> TRUE, throws |-> TRUE, value |-> <<>>, error |-> message]

\* (a, b) => b.time - a.time, with a NaN result read as 0 by the sort.
compareDescending(a, b) ==
    IF a.time.valid /\ b.time.valid THEN b.time.ms - a.time.ms ELSE 0

\* Array.prototype.sort with that comparator: a stable insertion sort, the pivot
\* moving left while it compares below its left neighbour.
RECURSIVE insertSorted(_, _)
insertSorted(sorted, pivot) ==
    IF sorted = <<>> THEN <<pivot>>
    ELSE IF compareDescending(pivot, sorted[Len(sorted)]) < 0
    THEN insertSorted(SubSeq(sorted, 1, Len(sorted) - 1), pivot) \o <<sorted[Len(sorted)]>>
    ELSE sorted \o <<pivot>>

RECURSIVE sortDescending(_)
sortDescending(list) ==
    IF list = <<>> THEN <<>>
    ELSE insertSorted(sortDescending(SubSeq(list, 1, Len(list) - 1)), list[Len(list)])

\* Array.prototype.slice(0, n)
slice(list, n) == SubSeq(list, 1, IF Len(list) < n THEN Len(list) ELSE n)

\* The Set-based dedupe loops: an entry is kept when its key was not seen before.
RECURSIVE keepFirst(_, _)
keepFirst(keys, list) ==
    IF list = <<>> THEN <<>>
    ELSE LET n    == Len(list)
             init == keepFirst(SubSeq(keys, 1, n - 1), SubSeq(list, 1, n - 1))
         IN  IF \E j \in 1..(n - 1) : keys[j] = keys[n]
             THEN init
             ELSE init \o <<list[n]>>

\* The same loop keyed on the lower-cased path.
uniqueByLowerCasePath(list) ==
    keepFirst([i \in 1..Len(list) |-> toLowerCase(list[i].path)], list)

\* Variant A, systemUtils.js:671-680: keyed on item.path as it is.
uniqueByPath(list) ==
    keepFirst([i \in 1..Len(list) |-> list[i].path], list)

\* getRecentlyDeletedFiles, variant A. On win32 the recycle-bin path is joined
\* from process.env.USERPROFILE, and path.join throws a TypeError on undefined;
\* the outer catch rethrows.
getRecentlyDeletedFilesA(plat, e, src) ==
    IF plat = "win32"
    THEN IF ~e.USERPROFILE
         THEN Threw("ERR_INVALID_ARG_TYPE")
         ELSE Returned(sortDescending(collect(src.trash) \o collect(src.eventLog)))
    ELSE Returned(sortDescending(collect(src.trash)))

\* getRecentlyDeletedFiles, variant B: the event log first, then the recycle bin
\* under os.homedir(); everything inside one try whose catch only logs.
getRecentlyDeletedFilesB(plat, e, src) ==
    IF plat = "win32"
    THEN Returned(slice(sortDescending(collect(src.eventLog) \o collect(src.trash)), 20))
    ELSE Returned(slice(sortDescending(collect(src.trash)), 20))

\* item.name.toLowerCase().endsWith('.jar') over the execution history.
jarExecutions(history) ==
    SelectSeq(history, LAMBDA item : endsWith(toLowerCase(item.name), <<".", "j", "a", "r">>))

\* getRecentlyExecutedJars, variant A: three sources, each in its own try.
getRecentlyExecutedJarsA(plat, src) ==
    LET registry == IF plat = "win32" THEN collect(src.registry) ELSE <<>>
        result   == registry \o jarExecutions(collect(src.execHistory))
                             \o collect(src.javaLogs)
    IN  Returned(sortDescending(uniqueByPath(result)))

\* getRecentlyExecutedJars, variant B.
getRecentlyExecutedJarsB(plat, src) ==
    LET executedJars ==
            IF plat = "win32"
            THEN collect(src.processes) \o collect(src.eventLog)
                     \o collect(src.prefetch) \o collect(src.folders)
            ELSE collect(src.processes)
    IN  Returned(sortDescending(uniqueByLowerCasePath(executedJars)))

\* getCompleteExecutionHistory, variant A: the sources in their own try blocks,
\* then the sort and the dedupe on item.name.toLowerCase() directly inside the
\* outer try, whose catch rethrows.
getCompleteExecutionHistoryA(plat, src) ==
    LET result ==
            IF plat = "win32"
            THEN collect(src.prefetch) \o collect(src.registry) \o collect(src.eventLog)
            ELSE collect(src.launchLog) \o collect(src.processes)
        sorted == sortDescending(result)
    IN  IF \E i \in 1..Len(sorted) : sorted[i].name = undefined
        THEN Threw("TypeError")
        ELSE Returned(keepFirst([i \in 1..Len(sorted) |-> toLowerCase(sorted[i].name)],
                                sorted))

\* getCompleteExecutionHistory, variant B: the running processes and, on win32,
\* the prefetch files, sorted by start time; no entry is dropped.
getCompleteExecutionHistoryB(plat, src) ==
    LET executionHistory ==
            IF plat = "win32"
            THEN collect(src.processes) \o collect(src.prefetch)
            ELSE collect(src.processes)
    IN  Returned(sortDescending(executionHistory))

\* detectMinecraftCheats, variant A: three checks that each catch their own
\* errors; sitesDetected, modFiles and suspiciousProcesses in one list.
detectMinecraftCheatsA(src) ==
    Returned(collect(src.browserHistory) \o collect(src.modFolders)
                 \o collect(src.processes))

----------------------------------------------------------------------------
(* systemUtils.js: the directory walks. The file system is drive C: of a    *)
(* win32 machine; a path is the sequence of names from the drive's root.    *)

\* A file: its path and how many days ago it was modified.
File(path, age) == [path |-> path, age |-> age]

\* Date.now(), in days.
now == 100

\* os.homedir()
homedir == <<<<"U", "s", "e", "r", "s">>, <<"x">>>>

\* path.join from the drive's root.
fullPath(path) ==
    IF path = <<>> THEN <<"C", ":", "\\">>
    ELSE join(<<<<"C", ":">>>> \o path, "\\")

isUnder(path, dir) ==
    /\ Len(path) > Len(dir)
    /\ SubSeq(path, 1, Len(dir)) = dir

\* fs.existsSync
existsSync(path, tree) ==
    \E f \in tree : f.path = path \/ isUnder(f.path, path)

\* Dirent.isDirectory / stats.isDirectory
isDirectory(path, tree) ==
    \E f \in tree : isUnder(f.path, path)

\* fs.stat of a file
stat(path, tree) == CHOOSE f \in tree : f.path = path

\* The order in which readdir lists the names of a directory.
NameOrder ==
    <<<<".", "m", "i", "n", "e", "c", "r", "a", "f", "t">>,
      <<"A", "p", "p", "D", "a", "t", "a">>,
      <<"a", ".", "j", "a", "r">>,
      <<"b", "a", "r", ".", "e", "x", "e", ".", "t", "x", "t">>,
      <<"D", "e", "s", "k", "t", "o", "p">>,
      <<"D", "o", "c", "u", "m", "e", "n", "t", "s">>,
      <<"D", "o", "w", "n", "l", "o", "a", "d", "s">>,
      <<"e", "v", "i", "l", ".", "e", "x", "e", ".", "t", "x", "t">>,
      <<"f", "o", "o", ".", "j", "a", "r">>,
      <<"f", "o", "o", ".", "t", "x", "t">>,
      <<"G", "a", "m", "e", "s">>,
      <<"l", "i", "b", "r", "a", "r", "i", "e", "s">>,
      <<"L", "o", "c", "a", "l">>,
      <<"m", "o", "d", ".", "j", "a", "r", ".", "t", "x", "t">>,
      <<"m", "o", "d", "s">>,
      <<"o", "l", "d", ".", "d", "l", "l", ".", "t", "x", "t">>,
      <<"P", "a", "c", "k", "a", "g", "e", "s">>,
      <<"r", "e", "s", "o", "u", "r", "c", "e", "p", "a", "c", "k", "s">>,
      <<"R", "o", "a", "m", "i", "n", "g">>,
      <<"s", "c", "r", "e", "e", "n", "s", "h", "o", "t", "s">>,
      <<"s", "k", "i", "p">>,
      <<"U", "s", "e", "r", "s">>,
      <<"v", "e", "r", "s", "i", "o", "n", "s">>,
      <<"W", "i", "n", "d", "o", "w", "s">>,
      <<"W", "i", "n", "d", "o", "w", "s", "A", "p", "p", "s">>,
      <<"x">>,
      <<"x", ".", "j", "a", "r">>>>

\* fs.readdir: the names in the directory, none when it does not exist.
readdir(dir, tree) ==
    SelectSeq(NameOrder,
              LAMBDA n : \E f \in tree : isUnder(f.path, dir) /\ f.path[Len(dir) + 1] = n)

\* The pushes of a loop, one list per item, in the order of the loop.
RECURSIVE flatten(_)
flatten(lists) ==
    IF Len(lists) = 0 THEN <<>>
    ELSE lists[1] \o flatten(SubSeq(lists, 2, Len(lists)))

\* The entry pushed for a file: name, path and modification time.
fileInfo(path, tree) ==
    [name |-> path[Len(path)],
     path |-> fullPath(path),
     time |-> Time(now - stat(path, tree).age)]

JarDepthLimitA == 15
JarDepthLimitB == 10
ModifiedDepthLimitA == 10
ModifiedDepthLimitB == 5
EnoughJars == 10
RecentDaysA == 7
RecentDaysB == 1

\* searchJarFilesRecursively, variant A (called without date options).
RECURSIVE searchJarFilesRecursivelyA(_, _, _)
searchJarFilesRecursivelyA(directory, depth, tree) ==
    IF depth > JarDepthLimitA THEN <<>>
    ELSE IF shouldSkipDirectoryA(fullPath(directory)) THEN <<>>
    ELSE LET items == readdir(directory, tree)
         IN  flatten([i \in 1..Len(items) |->
                 LET item == directory \o <<items[i]>>
                 IN  IF isDirectory(item, tree)
                     THEN searchJarFilesRecursivelyA(item, depth + 1, tree)
                     ELSE IF endsWith(toLowerCase(items[i]), <<".", "j", "a", "r">>)
                     THEN <<fileInfo(item, tree)>>
                     ELSE <<>>])

\* findAllJarFiles, variant A: every drive, then the sort on lastModified.
findAllJarFilesA(tree) ==
    sortDescending(searchJarFilesRecursivelyA(<<>>, 0, tree))

\* searchJarFilesRecursively, variant B.
RECURSIVE searchJarFilesRecursivelyB(_, _, _)
searchJarFilesRecursivelyB(directory, depth, tree) ==
    IF depth > JarDepthLimitB THEN <<>>
    ELSE LET files == readdir(directory, tree)
         IN  flatten([i \in 1..Len(files) |->
                 LET item == directory \o <<files[i]>>
                 IN  IF startsWith(files[i], <<".">>, 1) THEN <<>>
                     ELSE IF isDirectory(item, tree)
                     THEN IF ~shouldSkipDirectoryB(fullPath(item))
                          THEN searchJarFilesRecursivelyB(item, depth + 1, tree)
                          ELSE <<>>
                     ELSE IF endsWith(files[i], <<".", "j", "a", "r">>)
                     THEN <<fileInfo(item, tree)>>
                     ELSE <<>>])

\* Variant B's commonLocations (systemUtils.js:4333-4341).
commonLocations ==
    <<<<<<"U", "s", "e", "r", "s">>, <<"x">>, <<"D", "o", "w", "n", "l", "o", "a", "d", "s">>>>,
      <<<<"U", "s", "e", "r", "s">>, <<"x">>, <<"D", "e", "s", "k", "t", "o", "p">>>>,
      <<<<"U", "s", "e", "r", "s">>, <<"x">>, <<"D", "o", "c", "u", "m", "e", "n", "t", "s">>>>,
      <<<<"U", "s", "e", "r", "s">>, <<"x">>, <<"A", "p", "p", "D", "a", "t", "a">>, <<"R", "o", "a", "m", "i", "n", "g">>, <<".", "m", "i", "n", "e", "c", "r", "a", "f", "t">>>>,
      <<<<"U", "s", "e", "r", "s">>, <<"x">>, <<"A", "p", "p", "D", "a", "t", "a">>, <<"R", "o", "a", "m", "i", "n", "g">>, <<".", "m", "i", "n", "e", "c", "r", "a", "f", "t">>, <<"m", "o", "d", "s">>>>,
      <<<<"U", "s", "e", "r", "s">>, <<"x">>, <<"A", "p", "p", "D", "a", "t", "a">>, <<"R", "o", "a", "m", "i", "n", "g">>, <<".", "m", "i", "n", "e", "c", "r", "a", "f", "t">>, <<"v", "e", "r", "s", "i", "o", "n", "s">>>>,
      <<<<"U", "s", "e", "r", "s">>, <<"x">>, <<"A", "p", "p", "D", "a", "t", "a">>, <<"R", "o", "a", "m", "i", "n", "g">>, <<".", "m", "i", "n", "e", "c", "r", "a", "f", "t">>, <<"l", "i", "b", "r", "a", "r", "i", "e", "s">>>>>>

\* findAllJarFiles, variant B: the common locations, then every drive when fewer
\* than ten files were found; no sort.
findAllJarFilesB(tree) ==
    LET jarFiles == flatten([i \in 1..Len(commonLocations) |->
                        IF existsSync(commonLocations[i], tree)
                        THEN searchJarFilesRecursivelyB(commonLocations[i], 0, tree)
                        ELSE <<>>])
    IN  IF Len(jarFiles) < EnoughJars
        THEN jarFiles \o searchJarFilesRecursivelyB(<<>>, 0, tree)
        ELSE jarFiles

suspiciousExtensions ==
    <<<<".", "j", "a", "r", ".", "t", "x", "t">>,
      <<".", "e", "x", "e", ".", "t", "x", "t">>,
      <<".", "j", "a", "r", ".", "p", "n", "g">>,
      <<".", "e", "x", "e", ".", "p", "n", "g">>,
      <<".", "j", "a", "r", ".", "j", "p", "g">>,
      <<".", "e", "x", "e", ".", "j", "p", "g">>,
      <<".", "m", "i", "n", "e", "c", "r", "a", "f", "t", ".", "j", "a", "r">>,
      <<".", "d", "l", "l", ".", "t", "x", "t">>,
      <<".", "d", "l", "l", ".", "j", "a", "r">>,
      <<".", "b", "a", "t", ".", "t", "x", "t">>,
      <<".", "v", "b", "s", ".", "t", "x", "t">>>>

\* findRecentlyModifiedFiles, variant A.
RECURSIVE findRecentlyModifiedFilesA(_, _, _)
findRecentlyModifiedFilesA(directory, depth, tree) ==
    IF depth > ModifiedDepthLimitA THEN <<>>
    ELSE IF shouldSkipDirectoryA(fullPath(directory)) THEN <<>>
    ELSE LET items == readdir(directory, tree)
         IN  flatten([i \in 1..Len(items) |->
                 LET item     == directory \o <<items[i]>>
                     fileName == toLowerCase(items[i])
                     baseName == getOriginalNameGuessA(items[i])
                     similar  == IF baseName = null THEN <<>>
                                 ELSE SelectSeq(items, LAMBDA other :
                                          /\ other # items[i]
                                          /\ includes(toLowerCase(other), toLowerCase(baseName)))
                 IN  IF isDirectory(item, tree)
                     THEN findRecentlyModifiedFilesA(item, depth + 1, tree)
                     ELSE IF /\ now - stat(item, tree).age > now - RecentDaysA
                             /\ \E k \in 1..Len(suspiciousExtensions) :
                                    includes(fileName, suspiciousExtensions[k])
                     THEN <<[name |-> items[i], path |-> fullPath(item),
                             time |-> Time(now - stat(item, tree).age),
                             similarFiles |-> similar]>>
                     ELSE <<>>])

\* The directories variant A checks: Downloads, Desktop, Documents, then the
\* game directories of drive C:.
checkedDirsA ==
    <<<<<<"U", "s", "e", "r", "s">>, <<"x">>, <<"D", "o", "w", "n", "l", "o", "a", "d", "s">>>>,
      <<<<"U", "s", "e", "r", "s">>, <<"x">>, <<"D", "e", "s", "k", "t", "o", "p">>>>,
      <<<<"U", "s", "e", "r", "s">>, <<"x">>, <<"D", "o", "c", "u", "m", "e", "n", "t", "s">>>>,
      <<<<"U", "s", "e", "r", "s">>, <<"x">>, <<"A", "p", "p", "D", "a", "t", "a">>, <<"R", "o", "a", "m", "i", "n", "g">>, <<".", "m", "i", "n", "e", "c", "r", "a", "f", "t">>>>,
      <<<<"U", "s", "e", "r", "s">>, <<"x">>, <<"A", "p", "p", "D", "a", "t", "a">>, <<"L", "o", "c", "a", "l">>, <<"P", "a", "c", "k", "a", "g", "e", "s">>>>,
      <<<<"G", "a", "m", "e", "s">>>>,
      <<<<"U", "s", "e", "r", "s">>, <<"x">>, <<"G", "a", "m", "e", "s">>>>>>

\* checkFileExtensionChanges, variant A. The three user directories are read
\* unconditionally (a missing one lists nothing), a game directory when it exists.
checkFileExtensionChangesA(tree) ==
    sortDescending(flatten([i \in 1..Len(checkedDirsA) |->
        IF i <= 3 \/ existsSync(checkedDirsA[i], tree)
        THEN findRecentlyModifiedFilesA(checkedDirsA[i], 0, tree)
        ELSE <<>>]))

\* findRecentlyModifiedFiles, variant B: no skip list, the last 24 hours.
RECURSIVE findRecentlyModifiedFilesB(_, _, _)
findRecentlyModifiedFilesB(directory, depth, tree) ==
    IF depth > ModifiedDepthLimitB THEN <<>>
    ELSE LET files == readdir(directory, tree)
         IN  flatten([i \in 1..Len(files) |->
                 LET item == directory \o <<files[i]>>
                 IN  IF isDirectory(item, tree)
                     THEN IF ~startsWith(files[i], <<".">>, 1)
                          THEN findRecentlyModifiedFilesB(item, depth + 1, tree)
                          ELSE <<>>
                     ELSE IF now - stat(item, tree).age > now - RecentDaysB
                     THEN <<fileInfo(item, tree)>>
                     ELSE <<>>])

\* /(\.|_)(old|new|bak|backup|copy|renamed|changed)/.test(filename)
hasUncommonNaming(filename) ==
    \E i \in 1..Len(filename) :
        /\ filename[i] \in {".", "_"}
        /\ \E k \in 1..Len(RenameWords) :
               startsWith(filename, RenameWords[k], i + 1)

\* /\d{4}-\d{2}-\d{2}|\d{2}-\d{2}-\d{4}|\(\d+\)/.test(filename)
hasDatePattern(filename) ==
    \E i \in 1..Len(filename) :
        \/ datePatternAt(filename, i)
        \/ /\ i + 9 <= Len(filename)
           /\ \A k \in 0..9 : IF k \in {2, 5} THEN filename[i + k] = "-"
                              ELSE filename[i + k] \in Digits
        \/ /\ filename[i] = "("
           /\ \E j \in (i + 2)..Len(filename) :
                  /\ filename[j] = ")"
                  /\ \A k \in (i + 1)..(j - 1) : filename[k] \in Digits

\* filename.substring(0, filename.lastIndexOf('.'))
baseNameOf(filename) ==
    IF \E i \in 1..Len(filename) : filename[i] = "."
    THEN LET last == CHOOSE i \in 1..Len(filename) :
                         /\ filename[i] = "."
                         /\ \A j \in (i + 1)..Len(filename) : filename[j] # "."
         IN  SubSeq(filename, 1, last - 1)
    ELSE <<>>

\* The directories variant B checks (systemUtils.js:4420-4429).
dirsToCheck ==
    <<<<<<"U", "s", "e", "r", "s">>, <<"x">>, <<"D", "e", "s", "k", "t", "o", "p">>>>,
      <<<<"U", "s", "e", "r", "s">>, <<"x">>, <<"D", "o", "c", "u", "m", "e", "n", "t", "s">>>>,
      <<<<"U", "s", "e", "r", "s">>, <<"x">>, <<"D", "o", "w", "n", "l", "o", "a", "d", "s">>>>,
      <<<<"U", "s", "e", "r", "s">>, <<"x">>, <<"A", "p", "p", "D", "a", "t", "a">>, <<"R", "o", "a", "m", "i", "n", "g">>, <<".", "m", "i", "n", "e", "c", "r", "a", "f", "t">>>>,
      <<<<"U", "s", "e", "r", "s">>, <<"x">>, <<"A", "p", "p", "D", "a", "t", "a">>, <<"R", "o", "a", "m", "i", "n", "g">>, <<".", "m", "i", "n", "e", "c", "r", "a", "f", "t">>, <<"m", "o", "d", "s">>>>,
      <<<<"U", "s", "e", "r", "s">>, <<"x">>, <<"A", "p", "p", "D", "a", "t", "a">>, <<"R", "o", "a", "m", "i", "n", "g">>, <<".", "m", "i", "n", "e", "c", "r", "a", "f", "t">>, <<"r", "e", "s", "o", "u", "r", "c", "e", "p", "a", "c", "k", "s">>>>,
      <<<<"U", "s", "e", "r", "s">>, <<"x">>, <<"A", "p", "p", "D", "a", "t", "a">>, <<"R", "o", "a", "m", "i", "n", "g">>, <<".", "m", "i", "n", "e", "c", "r", "a", "f", "t">>, <<"s", "c", "r", "e", "e", "n", "s", "h", "o", "t", "s">>>>>>

\* checkFileExtensionChanges, variant B: every recently modified file is pushed
\* once when its name looks renamed and once more when another recent file has
\* the same base name.
checkFileExtensionChangesB(tree) ==
    LET recentlyModified ==
            flatten([i \in 1..Len(dirsToCheck) |->
                findRecentlyModifiedFilesB(dirsToCheck[i], 0, tree)])
    IN  flatten([i \in 1..Len(recentlyModified) |->
            LET file     == recentlyModified[i]
                filename == file.name
                renamed  == \/ Len(split(filename, ".")) > 2
                            \/ hasUncommonNaming(filename)
                            \/ hasDatePattern(filename)
                similarFiles == SelectSeq(recentlyModified, LAMBDA f :
                                    /\ baseNameOf(f.name) = baseNameOf(filename)
                                    /\ f.path # file.path)
            IN  (IF renamed
                 THEN <<[name |-> filename, path |-> file.path, time |-> file.time,
                         originalName |-> getOriginalNameGuessB(filename)]>>
                 ELSE <<>>)
                \o (IF Len(similarFiles) > 0
                    THEN <<[name |-> filename, path |-> file.path, time |-> file.time,
                            similarFiles |-> similarFiles]>>
                    ELSE <<>>)])

----------------------------------------------------------------------------
(* systemUtils.js: suspicious mod files (checkMinecraftModFolders, *)
(* scanMinecraftMods)                                              *)

\* suspiciousKeywords of checkMinecraftModFolders
modFolderKeywords ==
    {<<"h", "a", "c", "k">>,
     <<"c", "h", "e", "a", "t">>,
     <<"x", "r", "a", "y">>,
     <<"a", "u", "t", "o", "c", "l", "i", "c", "k", "e", "r">>,
     <<"k", "i", "l", "l", "a", "u", "r", "a">>,
     <<"b", "h", "o", "p">>,
     <<"f", "l", "i", "g", "h", "t">>,
     <<"w", "a", "l", "l", "h", "a", "c", "k">>,
     <<"n", "o", "c", "l", "i", "p">>,
     <<"s", "p", "e", "e", "d">>,
     <<"a", "i", "m", "b", "o", "t">>,
     <<"e", "s", "p">>,
     <<"t", "r", "a", "c", "e", "r", "s">>,
     <<"r", "e", "a", "c", "h">>,
     <<"b", "y", "p", "a", "s", "s">>,
     <<"g", "h", "o", "s", "t", "c", "l", "i", "e", "n", "t">>,
     <<"b", "a", "r", "i", "t", "o", "n", "e">>,
     <<"n", "u", "k", "e", "r">>,
     <<"a", "u", "t", "o", "t", "o", "o", "l">>,
     <<"b", "l", "i", "n", "k">>,
     <<"f", "a", "s", "t", "p", "l", "a", "c", "e">>,
     <<"n", "o", "f", "a", "l", "l">>,
     <<"a", "n", "t", "i", "k", "n", "o", "c", "k", "b", "a", "c", "k">>,
     <<"c", "r", "i", "t", "i", "c", "a", "l", "s">>,
     <<"s", "c", "a", "f", "f", "o", "l", "d">>,
     <<"t", "i", "m", "e", "r">>,
     <<"f", "r", "e", "e", "c", "a", "m">>,
     <<"f", "u", "l", "l", "b", "r", "i", "g", "h", "t">>,
     <<"j", "e", "s", "u", "s">>,
     <<"p", "h", "a", "s", "e">>,
     <<"s", "p", "o", "o", "f", "e", "r">>}

\* the keywords scanMinecraftMods adds to that list
scanOnlyKeywords ==
    {<<"m", "a", "c", "r", "o">>,
     <<"b", "o", "t">>,
     <<"i", "n", "j", "e", "c", "t">>,
     <<"p", "v", "p">>,
     <<"a", "u", "t", "o", "f", "i", "s", "h">>,
     <<"a", "u", "r", "a">>,
     <<"c", "l", "i", "e", "n", "t">>}

\* suspiciousKeywords of scanMinecraftMods
scanKeywords == modFolderKeywords \cup scanOnlyKeywords

\* whitelistedMods of scanMinecraftMods
whitelistedMods ==
    {<<"o", "p", "t", "i", "f", "i", "n", "e">>,
     <<"s", "o", "d", "i", "u", "m">>,
     <<"p", "h", "o", "s", "p", "h", "o", "r">>,
     <<"l", "i", "t", "h", "i", "u", "m">>,
     <<"f", "a", "b", "r", "i", "c", "-", "a", "p", "i">>,
     <<"f", "o", "r", "g", "e">>,
     <<"j", "e", "i">>,
     <<"r", "e", "i">>,
     <<"w", "o", "r", "l", "d", "e", "d", "i", "t">>,
     <<"p", "e", "r", "f", "o", "r", "m", "a", "n", "c", "e">>,
     <<"m", "o", "d", "-", "m", "e", "n", "u">>,
     <<"s", "h", "u", "l", "k", "e", "r", "t", "o", "o", "l", "t", "i", "p">>,
     <<"s", "h", "a", "d", "e", "r", "s">>,
     <<"d", "y", "n", "a", "m", "i", "c", "l", "i", "g", "h", "t", "s">>,
     <<"a", "p", "p", "l", "e", "s", "k", "i", "n">>,
     <<"j", "o", "u", "r", "n", "e", "y", "m", "a", "p">>,
     <<"v", "o", "x", "e", "l", "m", "a", "p">>,
     <<"x", "a", "e", "r", "o">>,
     <<"m", "i", "n", "i", "m", "a", "p">>,
     <<"i", "n", "v", "e", "n", "t", "o", "r", "y">>,
     <<"c", "r", "a", "f", "t", "g", "u", "i", "d", "e">>,
     <<"c", "r", "a", "f", "t", "p", "r", "e", "s", "e", "n", "c", "e">>,
     <<"d", "i", "n", "g">>,
     <<"s", "o", "u", "n", "d">>,
     <<"l", "o", "o", "t">>,
     <<"v", "o", "i", "c", "e", "c", "h", "a", "t">>,
     <<"t", "e", "r", "r", "a", "l", "i", "t", "h">>,
     <<"b", "i", "o", "m", "e", "s">>,
     <<"b", "e", "t", "t", "e", "r">>,
     <<"d", "u", "r", "a", "b", "i", "l", "i", "t", "y">>,
     <<"m", "o", "u", "s", "e">>,
     <<"t", "w", "e", "a", "k", "s">>,
     <<"c", "u", "r", "i", "o", "s">>,
     <<"b", "a", "u", "b", "l", "e", "s">>,
     <<"g", "a", "d", "g", "e", "t">>,
     <<"u", "t", "i", "l", "i", "t", "y">>,
     <<"f", "t", "b">>,
     <<"m", "e", "k", "a", "n", "i", "s", "m">>,
     <<"t", "h", "e", "r", "m", "a", "l">>,
     <<"t", "i", "n", "k", "e", "r", "s">>,
     <<"b", "l", "o", "o", "d">>,
     <<"b", "o", "t", "a", "n", "i", "a">>,
     <<"c", "o", "m", "p", "u", "t", "e", "r", "c", "r", "a", "f", "t">>,
     <<"c", "h", "i", "s", "e", "l">>,
     <<"c", "r", "e", "a", "t", "e">>,
     <<"r", "e", "f", "i", "n", "e", "d">>,
     <<"s", "t", "o", "r", "a", "g", "e">>,
     <<"a", "p", "p", "l", "i", "e", "d">>}

\* suspiciousKeywords.filter(keyword => nameLower.includes(keyword)).length > 0
hasKeyword(keywords, nameLower) ==
    \E keyword \in keywords : includes(nameLower, keyword)

dotJar == <<".", "j", "a", "r">>
dotZip == <<".", "z", "i", "p">>

\* checkMinecraftModFolders: the entries pushed to result.modFiles for the
\* files of a mods folder; no whitelist is consulted.
RECURSIVE checkMinecraftModFolders(_)
checkMinecraftModFolders(modFiles) ==
    IF modFiles = <<>> THEN <<>>
    ELSE LET modFile == Head(modFiles)
             modNameLower == toLowerCase(modFile)
             entry == [name |-> modFile,
                       suspicious |-> hasKeyword(modFolderKeywords, modNameLower)]
         IN  (IF endsWith(modFile, dotJar) THEN <<entry>> ELSE <<>>)
                 \o checkMinecraftModFolders(Tail(modFiles))

\* scanMinecraftMods: result.suspiciousMods for the files of a mods folder.
RECURSIVE scanMinecraftMods(_)
scanMinecraftMods(files) ==
    IF files = <<>> THEN <<>>
    ELSE LET file == Head(files)
             nameLower == toLowerCase(file)
             isWhitelisted == \E whiteMod \in whitelistedMods : includes(nameLower, whiteMod)
         IN  (IF /\ endsWith(file, dotJar) \/ endsWith(file, dotZip)
                 /\ hasKeyword(scanKeywords, nameLower)
                 /\ ~isWhitelisted
              THEN <<[name |-> file, suspicious |-> TRUE]>>
              ELSE <<>>)
                 \o scanMinecraftMods(Tail(files))

----------------------------------------------------------------------------
(* systemUtils.js: checkScreenRecording, both variants *)

\* recordingApps of variant A
recordingApps ==
    <<<<"O", "B", "S", " ", "S", "t", "u", "d", "i", "o">>,
      <<"O", "B", "S">>,
      <<"S", "t", "r", "e", "a", "m", "l", "a", "b", "s", " ", "O", "B", "S">>,
      <<"X", "S", "p", "l", "i", "t">>,
      <<"B", "a", "n", "d", "i", "c", "a", "m">>,
      <<"C", "a", "m", "t", "a", "s", "i", "a">>,
      <<"S", "c", "r", "e", "e", "n", "R", "e", "c", "o", "r", "d", "e", "r">>,
      <<"F", "r", "a", "p", "s">>,
      <<"A", "c", "t", "i", "o", "n", "!">>,
      <<"S", "h", "a", "r", "e", "X">>,
      <<"S", "c", "r", "e", "e", "n", "c", "a", "s", "t", "-", "O", "-", "M", "a", "t", "i", "c">>,
      <<"D", "e", "b", "u", "t">>,
      <<"C", "a", "m", "S", "t", "u", "d", "i", "o">>,
      <<"S", "c", "r", "e", "e", "n", "F", "l", "o", "w">>,
      <<"Q", "u", "i", "c", "k", "T", "i", "m", "e", " ", "P", "l", "a", "y", "e", "r">>,
      <<"S", "c", "r", "e", "e", "n", "c", "a", "s", "t", "X">>,
      <<"S", "c", "r", "e", "e", "n", "R", "e", "c">>,
      <<"M", "o", "v", "a", "v", "i", " ", "S", "c", "r", "e", "e", "n", " ", "R", "e", "c", "o", "r", "d", "e", "r">>,
      <<"I", "c", "e", "c", "r", "e", "a", "m", " ", "S", "c", "r", "e", "e", "n", " ", "R", "e", "c", "o", "r", "d", "e", "r">>,
      <<"A", "p", "o", "w", "e", "r", "s", "o", "f", "t">>,
      <<"S", "c", "r", "e", "e", "n", "T", "o", "G", "i", "f">>,
      <<"D", "U", " ", "R", "e", "c", "o", "r", "d", "e", "r">>,
      <<"A", "Z", " ", "S", "c", "r", "e", "e", "n", " ", "R", "e", "c", "o", "r", "d", "e", "r">>,
      <<"F", "B", "X">>,
      <<"F", "F", "m", "p", "e", "g">>,
      <<"S", "c", "r", "e", "e", "n", " ", "R", "e", "c", "o", "r", "d", "e", "r">>>>

\* falsePositives of variant A
falsePositives ==
    <<<<"C", "a", "p", "t", "u", "r", "e", " ", "O", "n", "e">>,
      <<"C", "a", "p", "t", "u", "r", "e", " ", "N", "X">>,
      <<"C", "a", "p", "t", "u", "r", "e", " ", "M", "a", "n", "a", "g", "e", "r">>,
      <<"C", "a", "p", "t", "u", "r", "e", " ", "S", "e", "r", "v", "i", "c", "e">>,
      <<"W", "i", "n", "d", "o", "w", "s", " ", "M", "e", "d", "i", "a", " ", "P", "l", "a", "y", "e", "r">>,
      <<"W", "i", "n", "d", "o", "w", "s", " ", "P", "h", "o", "t", "o", " ", "V", "i", "e", "w", "e", "r">>,
      <<"P", "h", "o", "t", "o", "s">>,
      <<"C", "a", "m", "e", "r", "a">>,
      <<"S", "c", "r", "e", "e", "n", "S", "a", "v", "e", "r">>,
      <<"S", "c", "r", "e", "e", "n", "C", "o", "n", "n", "e", "c", "t">>,
      <<"S", "c", "r", "e", "e", "n", " ", "T", "i", "m", "e">>,
      <<"M", "i", "c", "r", "o", "s", "o", "f", "t", " ", "T", "e", "a", "m", "s">>,
      <<"A", "d", "o", "b", "e", " ", "C", "a", "p", "t", "u", "r", "e">>,
      <<"T", "e", "a", "m", "V", "i", "e", "w", "e", "r">>>>

\* screenRecordingApps of variant B
screenRecordingApps ==
    <<<<"O", "B", "S", " ", "S", "t", "u", "d", "i", "o">>,
      <<"o", "b", "s", "6", "4", ".", "e", "x", "e">>,
      <<"o", "b", "s", ".", "e", "x", "e">>,
      <<"o", "b", "s", "-", "s", "t", "u", "d", "i", "o">>,
      <<"B", "a", "n", "d", "i", "c", "a", "m">>,
      <<"b", "d", "c", "a", "m", ".", "e", "x", "e">>,
      <<"b", "a", "n", "d", "i", "c", "a", "m", ".", "e", "x", "e">>,
      <<"C", "a", "m", "t", "a", "s", "i", "a">>,
      <<"c", "a", "m", "t", "a", "s", "i", "a", ".", "e", "x", "e">>,
      <<"c", "a", "m", "t", "a", "s", "i", "a", "s", "t", "u", "d", "i", "o", ".", "e", "x", "e">>,
      <<"A", "c", "t", "i", "o", "n", "!">>,
      <<"a", "c", "t", "i", "o", "n", ".", "e", "x", "e">>,
      <<"m", "i", "r", "i", "l", "l", "i", "s", ".", "e", "x", "e">>,
      <<"F", "r", "a", "p", "s">>,
      <<"f", "r", "a", "p", "s", ".", "e", "x", "e">>,
      <<"S", "t", "r", "e", "a", "m", "l", "a", "b", "s", " ", "O", "B", "S">>,
      <<"s", "t", "r", "e", "a", "m", "l", "a", "b", "s", "-", "o", "b", "s", ".", "e", "x", "e">>,
      <<"X", "S", "p", "l", "i", "t">>,
      <<"x", "s", "p", "l", "i", "t", ".", "e", "x", "e">>,
      <<"x", "s", "p", "l", "i", "t", "b", "r", "o", "a", "d", "c", "a", "s", "t", "e", "r", ".", "e", "x", "e">>,
      <<"D", "X", "t", "o", "r", "y">>,
      <<"d", "x", "t", "o", "r", "y", ".", "e", "x", "e">>,
      <<"N", "v", "i", "d", "i", "a", " ", "S", "h", "a", "d", "o", "w", "P", "l", "a", "y">>,
      <<"n", "v", "s", "t", "r", "e", "a", "m", "s", "v", "c", ".", "e", "x", "e">>,
      <<"n", "v", "s", "p", "c", "a", "p", "s", "6", "4", ".", "e", "x", "e">>,
      <<"A", "M", "D", " ", "R", "e", "L", "i", "v", "e">>,
      <<"a", "m", "d", "o", "w", ".", "e", "x", "e">>,
      <<"r", "a", "d", "e", "o", "n", "o", "v", "e", "r", "l", "a", "y">>,
      <<"M", "o", "v", "a", "v", "i", " ", "S", "c", "r", "e", "e", "n", " ", "R", "e", "c", "o", "r", "d", "e", "r">>,
      <<"m", "o", "v", "a", "v", "i", "_", "s", "c", "r", "e", "e", "n", "c", "a", "p", "t", "u", "r", "e", "r", ".", "e", "x", "e">>,
      <<"S", "c", "r", "e", "e", "n", "R", "e", "c">>,
      <<"s", "c", "r", "e", "e", "n", "r", "e", "c", ".", "e", "x", "e">>,
      <<"S", "c", "r", "e", "e", "n", "C", "a", "s", "t", "i", "f", "y">>,
      <<"s", "c", "r", "e", "e", "n", "c", "a", "s", "t", "i", "f", "y">>,
      <<"S", "c", "r", "e", "e", "n", "F", "l", "o", "w">>,
      <<"F", "F", "m", "p", "e", "g">>,
      <<"f", "f", "m", "p", "e", "g", ".", "e", "x", "e">>,
      <<"D", "3", "D", "G", "e", "a", "r">>,
      <<"d", "3", "d", "g", "e", "a", "r", ".", "e", "x", "e">>,
      <<"I", "c", "e", "c", "r", "e", "a", "m", " ", "S", "c", "r", "e", "e", "n", " ", "R", "e", "c", "o", "r", "d", "e", "r">>,
      <<"i", "c", "e", "c", "r", "e", "a", "m", "s", "c", "r", "e", "e", "n", "r", "e", "c", "o", "r", "d", "e", "r", ".", "e", "x", "e">>,
      <<"C", "a", "m", "S", "t", "u", "d", "i", "o">>,
      <<"c", "a", "m", "s", "t", "u", "d", "i", "o", ".", "e", "x", "e">>,
      <<"T", "i", "n", "y", "T", "a", "k", "e">>,
      <<"t", "i", "n", "y", "t", "a", "k", "e", ".", "e", "x", "e">>,
      <<"S", "c", "r", "e", "e", "n", "c", "a", "s", "t", "-", "O", "-", "M", "a", "t", "i", "c">>,
      <<"s", "c", "r", "e", "e", "n", "c", "a", "s", "t", "o", "m", "a", "t", "i", "c", ".", "e", "x", "e">>,
      <<"D", "e", "b", "u", "t", " ", "V", "i", "d", "e", "o", " ", "C", "a", "p", "t", "u", "r", "e">>,
      <<"d", "e", "b", "u", "t", ".", "e", "x", "e">>,
      <<"F", "l", "a", "s", "h", "B", "a", "c", "k", " ", "E", "x", "p", "r", "e", "s", "s">>,
      <<"f", "l", "a", "s", "h", "b", "a", "c", "k", ".", "e", "x", "e">>,
      <<"S", "n", "a", "g", "i", "t">>,
      <<"s", "n", "a", "g", "i", "t", ".", "e", "x", "e">>,
      <<"A", "c", "t", "i", "v", "e", "P", "r", "e", "s", "e", "n", "t", "e", "r">>,
      <<"a", "c", "t", "i", "v", "e", "p", "r", "e", "s", "e", "n", "t", "e", "r", ".", "e", "x", "e">>,
      <<"A", "p", "o", "w", "e", "r", "s", "o", "f", "t", " ", "S", "c", "r", "e", "e", "n", " ", "R", "e", "c", "o", "r", "d", "e", "r">>,
      <<"a", "p", "o", "w", "e", "r", "s", "o", "f", "t", "s", "c", "r", "e", "e", "n", "r", "e", "c", "o", "r", "d", "e", "r", ".", "e", "x", "e">>,
      <<"A", "c", "e", "T", "h", "i", "n", "k", "e", "r", " ", "S", "c", "r", "e", "e", "n", " ", "G", "r", "a", "b", "b", "e", "r", " ", "P", "r", "o">>,
      <<"a", "c", "e", "t", "h", "i", "n", "k", "e", "r", "s", "c", "r", "e", "e", "n", "g", "r", "a", "b", "b", "e", "r", ".", "e", "x", "e">>,
      <<"i", "S", "p", "r", "i", "n", "g", " ", "C", "a", "m">>,
      <<"i", "s", "p", "r", "i", "n", "g", "c", "a", "m", ".", "e", "x", "e">>,
      <<"S", "c", "r", "e", "e", "n", " ", "R", "e", "c", "o", "r", "d", "e", "r", " ", "G", "o", "l", "d">>,
      <<"s", "c", "r", "e", "e", "n", "r", "e", "c", "o", "r", "d", "e", "r", "g", "o", "l", "d", ".", "e", "x", "e">>,
      <<"A", "n", "y", " ", "V", "i", "d", "e", "o", " ", "R", "e", "c", "o", "r", "d", "e", "r">>,
      <<"a", "n", "y", "v", "i", "d", "e", "o", "r", "e", "c", "o", "r", "d", "e", "r", ".", "e", "x", "e">>,
      <<"X", "b", "o", "x", " ", "G", "a", "m", "e", " ", "B", "a", "r">>,
      <<"g", "a", "m", "e", "b", "a", "r", ".", "e", "x", "e">>,
      <<"x", "b", "o", "x", "g", "a", "m", "e", "b", "a", "r", ".", "e", "x", "e">>,
      <<"g", "a", "m", "e", "b", "a", "r", "f", "t", ".", "e", "x", "e">>,
      <<"W", "i", "n", "d", "o", "w", "s", " ", "G", "a", "m", "e", " ", "R", "e", "c", "o", "r", "d", "i", "n", "g">>,
      <<"x", "b", "o", "x", "a", "p", "p", ".", "e", "x", "e">>,
      <<"g", "a", "m", "e", "r", "e", "c", "o", "r", "d", "i", "n", "g">>,
      <<"Q", "u", "i", "c", "k", "T", "i", "m", "e", " ", "P", "l", "a", "y", "e", "r">>,
      <<"L", "o", "o", "m">>,
      <<"l", "o", "o", "m", ".", "e", "x", "e">>,
      <<"N", "i", "m", "b", "u", "s">>,
      <<"n", "i", "m", "b", "u", "s", ".", "e", "x", "e">>,
      <<"A", "w", "e", "s", "o", "m", "e", " ", "S", "c", "r", "e", "e", "n", "s", "h", "o", "t">>,
      <<"S", "c", "r", "e", "e", "n", "c", "a", "s", "t", "i", "f", "y">>,
      <<"S", "h", "a", "r", "e", "X">>,
      <<"s", "h", "a", "r", "e", "x", ".", "e", "x", "e">>,
      <<"S", "c", "r", "e", "e", "n", " ", "C", "a", "p", "t", "u", "r", "e">>,
      <<"G", "r", "a", "b", "i", "l", "l", "a">>,
      <<"g", "r", "a", "b", "i", "l", "l", "a", ".", "e", "x", "e">>,
      <<"s", "c", "r", "e", "e", "n", " ", "r", "e", "c", "o", "r", "d", "e", "r">>,
      <<"s", "c", "r", "e", "e", "n", "r", "e", "c", "o", "r", "d", "e", "r">>,
      <<"c", "a", "p", "t", "u", "r", "e">>,
      <<"s", "c", "r", "e", "e", "n", " ", "c", "a", "p", "t", "u", "r", "e">>,
      <<"s", "c", "r", "e", "e", "n", "c", "a", "p", "t", "u", "r", "e">>,
      <<"r", "e", "c", "o", "r", "d">>,
      <<"r", "e", "c", "o", "r", "d", "i", "n", "g">>,
      <<"g", "r", "a", "b", "b", "e", "r">>,
      <<"s", "c", "r", "e", "e", "n", "g", "r", "a", "b">>,
      <<"s", "c", "r", "e", "e", "n", " ", "g", "r", "a", "b">>>>

\* list.some(app => text.toLowerCase().includes(app.toLowerCase())) for one of
\* the texts
someIncluded(list, texts) ==
    \E k \in 1..Len(list) : \E text \in texts :
        includes(toLowerCase(text), toLowerCase(list[k]))

\* The patterns of the grep over the command lines (variant A, Linux).
compositorPatterns ==
    {<<"f", "f", "m", "p", "e", "g">>, <<"g", "s", "t">>, <<"v", "4", "l", "2">>, <<"x", "1", "1", "g", "r", "a", "b">>, <<"x", "c", "b", "g", "r", "a", "b">>}

\* /webcam|camera|cam$/i
isCameraName(deviceName) ==
    LET lower == toLowerCase(deviceName)
    IN  \/ includes(lower, <<"w", "e", "b", "c", "a", "m">>)
        \/ includes(lower, <<"c", "a", "m", "e", "r", "a">>)
        \/ endsWith(lower, <<"c", "a", "m">>)

\* The window title tasklist /v prints for a process without a window.
noWindowTitle == <<"N", "/", "A">>

\* checkScreenRecording, variant A, with one process, service or device running.
checkScreenRecordingA(r) ==
    LET name == r.name
        listed(entry) == [recording |-> TRUE, applications |-> <<entry>>]
        nothing == [recording |-> FALSE, applications |-> <<>>]
        process ==
            IF /\ ~someIncluded(falsePositives, {name})
               /\ someIncluded(recordingApps, {name})
            THEN listed(name) ELSE nothing
    IN  CASE r.platform = "win32" /\ r.kind = "process" ->
                 IF /\ ~someIncluded(falsePositives, {name, noWindowTitle})
                    /\ someIncluded(recordingApps, {name, noWindowTitle})
                 THEN listed(name \o <<" ", "(">> \o noWindowTitle \o <<")">>)
                 ELSE nothing
          [] r.platform = "win32" /\ r.kind = "service" ->
                 IF /\ ~someIncluded(falsePositives, {name})
                    /\ someIncluded(recordingApps, {name})
                 THEN listed(<<"S", "e", "r", "v", "i", "c", "i", "o", ":", " ">> \o name)
                 ELSE nothing
          [] r.platform = "win32" /\ r.kind = "device" ->
                 \* the query returns the devices whose caption is like
                 \* *capture* or *video*
                 IF /\ \/ includes(toLowerCase(name), <<"c", "a", "p", "t", "u", "r", "e">>)
                       \/ includes(toLowerCase(name), <<"v", "i", "d", "e", "o">>)
                    /\ ~someIncluded(falsePositives, {name})
                    /\ includes(toLowerCase(name), <<"c", "a", "p", "t", "u", "r", "e">>)
                 THEN [recording |-> ~isCameraName(name),
                       applications |-> <<<<"D", "i", "s", "p", "o", "s", "i", "t", "i", "v", "o", " ", "d", "e", " ", "c", "a", "p", "t", "u", "r", "a", ":", " ">> \o name>>]
                 ELSE nothing
          [] r.platform = "darwin" /\ r.kind = "process" -> process
          [] r.platform = "linux" /\ r.kind = "process" ->
                 \* the processes by name, then the command lines that grep keeps
                 IF /\ \E p \in compositorPatterns : includes(name, p)
                    /\ ~includes(name, <<"g", "r", "e", "p">>)
                 THEN [recording |-> TRUE,
                       applications |-> process.applications
                           \o <<<<"C", "o", "m", "p", "o", "s", "i", "t", "o", "r", " ", "d", "e", " ", "g", "r", "a", "b", "a", "c", "i", "ó", "n", ":", " ">> \o slice(name, 50)
                                   \o <<".", ".", ".">>>>]
                 ELSE process
          [] OTHER -> nothing

\* Get-Process prints the image name without its .exe.
processNameOf(imageName) ==
    IF endsWith(toLowerCase(imageName), <<".", "e", "x", "e">>)
    THEN SubSeq(imageName, 1, Len(imageName) - 4)
    ELSE imageName

\* line.trim().split(' ')[0] of a line of ps -axo comm,pid
firstWord(line) == split(line, " ")[1]

\* if (!detectedApps.includes(x)) detectedApps.push(x), for each x in order
RECURSIVE pushNew(_, _)
pushNew(detectedApps, candidates) ==
    IF candidates = <<>> THEN detectedApps
    ELSE pushNew(IF \E i \in 1..Len(detectedApps) : detectedApps[i] = Head(candidates)
                 THEN detectedApps
                 ELSE Append(detectedApps, Head(candidates)),
                 Tail(candidates))

\* checkScreenRecording, variant B, with one process, service or device running
\* and the Xbox Game Bar capture setting off; no exclusion list is consulted.
checkScreenRecordingB(r) ==
    LET name == r.name
        pid  == <<" ", "4", "2", "4", "2">>
        matching(text) == SelectSeq(screenRecordingApps,
                              LAMBDA app : includes(toLowerCase(text), toLowerCase(app)))
        \* tasklist /FI "IMAGENAME eq <app>" for every app of the list
        imageHits == IF r.platform = "win32" /\ r.kind = "process"
                     THEN SelectSeq(screenRecordingApps,
                              LAMBDA app : /\ toLowerCase(app) = toLowerCase(name)
                                           /\ includes(name, <<".", "e", "x", "e">>))
                     ELSE <<>>
        \* Get-Process: the process name, as often as an app of the list matches
        bgHits == IF r.platform = "win32" /\ r.kind = "process"
                  THEN [k \in 1..Len(matching(processNameOf(name))) |-> processNameOf(name)]
                  ELSE <<>>
        \* ps -axo comm,pid: the first word of the line
        psHits == IF r.platform \in {"darwin", "linux"} /\ r.kind = "process"
                  THEN [k \in 1..Len(matching(name \o pid)) |-> firstWord(name \o pid)]
                  ELSE <<>>
        processOutput ==
            CASE r.platform = "win32" /\ r.kind = "process" ->
                     name \o <<"\n">> \o processNameOf(name) \o <<" ", "-", " ">> \o <<"\n">>
              [] r.platform = "win32" /\ r.kind = "service" -> name \o <<"\n">>
              [] r.platform \in {"darwin", "linux"} /\ r.kind = "process" -> name \o pid
              [] OTHER -> <<>>
        specific == pushNew(pushNew(imageHits, bgHits), psHits)
        detectedApps == IF Len(specific) = 0
                        THEN pushNew(<<>>, matching(processOutput))
                        ELSE specific
    IN  [recording |-> Len(detectedApps) > 0, applications |-> detectedApps]

----------------------------------------------------------------------------
(* Main process: the ipcMain handlers (src/unnamed/part_000) *)

\* The channels whose handler awaits one systemUtils function.
SystemChannels ==
    {"find-jar-files", "check-extension-changes", "get-deleted-files",
     "get-executed-jars", "check-usb-disconnection", "check-screen-recording",
     "open-browser-history", "detect-browsers", "detect-minecraft-cheats",
     "detect-stopped-services", "get-folder-history", "get-execution-history",
     "open-minecraft-files", "open-file-location", "get-command-history"}

\* A handler that lets the error escape: its promise rejects.
IpcHandlerRethrow(outcome) ==
    IF outcome.throws
    THEN Rejected(outcome.error)
    ELSE Fulfilled(outcome.value)

\* ipcMain.handle(channel, async () => { try { return await systemUtils.f() }
\*                                       catch (error) { return {error: error.message} } })
IpcHandler(outcome) ==
    IF outcome.throws
    THEN Fulfilled(ErrorValue(outcome.error.message))
    ELSE Fulfilled(outcome.value)

\* The outcomes of dialog.showSaveDialog (a chosen path, a cancelled dialog, an
\* error) and of fs.promises.writeFile.
DialogOutcomes ==
    {Returns(ResultValue("kenibox_results.json")), Returns(ResultValue("notes.txt")),
     Returns(ResultValue(NoData))}
    \cup {Throws(e) : e \in ErrorObjects}

WriteOutcomes == {Returns(ResultValue(NoData))} \cup {Throws(e) : e \in ErrorObjects}

\* The 'export-results' handler: the reply it settles with.
ExportHandler(dialog, write) ==
    IF dialog.throws
    THEN Fulfilled(ErrorValue(dialog.error.message))
    ELSE IF dialog.value.data # NoData
         THEN IF write.throws
              THEN Fulfilled(ErrorValue(write.error.message))
              ELSE Fulfilled(ResultValue([success |-> TRUE, path |-> dialog.value.data]))
         ELSE Fulfilled(ResultValue([canceled |-> TRUE]))

\* JSON.stringify(data, null, 2): the text of the value, no longer the value.
JSONstringify(data) == [json |-> data]

\* The handler writing what it received as it is.
ExportWriteUnserialized(files, data, dialog, write) ==
    IF ~dialog.throws /\ dialog.value.data # NoData /\ ~write.throws
    THEN [files EXCEPT ![dialog.value.data] = data]
    ELSE files

\* The 'export-results' handler: the files after it ran.
ExportWrite(files, data, dialog, write) ==
    IF ~dialog.throws /\ dialog.value.data # NoData /\ ~write.throws
    THEN [files EXCEPT ![dialog.value.data] = JSONstringify(data)]
    ELSE files

NotHandled == [channel |-> "none", outcome |-> Returns(ResultValue(NoData)),
               settled |-> Fulfilled(ResultValue(NoData))]

----------------------------------------------------------------------------
(* Renderer: click handlers and their continuations *)

\* getDeletedFiles/getExecutedJars/getExecutionHistory: the window read off the
\* buttons' classes (renderer.js:249-255).
WindowOf(key, act) ==
    LET b == ButtonsOf[key]
    IN  IF b[1] \in act THEN b[1]
        ELSE IF b[3] \in act THEN b[3]
        ELSE b[2]

\* A click on a plain probe button: showLoading, then the IPC call.
ClickProbe ==
    \E key \in ProbeKeys \ TimeProbes :
        /\ clicks < MaxClicks
        /\ clicks' = clicks + 1
        /\ panel' = [panel EXCEPT ![key] = "loading"]
        /\ sent' = sent (+) SetToBag({Request(key, 0, NoExport)})
        /\ UNCHANGED <<globalResults, active, lastCompleted,
                       exported, exportedFrom, disk>>
        /\ UNCHANGED <<lastClicked, resultWindow>>
        /\ UNCHANGED <<mainVars, utilVars>>

\* The buttons of a group as a set.
GroupOf(key) == {ButtonsOf[key][i] : i \in 1..3}

\* setupButtonGroup's listener (renderer.js:81-83): classList.remove('active') on
\* every button of the group, then classList.add('active') on the clicked one.
activateKeeping(act, buttons, button) == act \cup {button}

activate(act, buttons, button) == (act \ buttons) \cup {button}

\* The window whose reply a continuation has rendered (panel) and stored
\* (globalResults): that of its own request, whatever is active by then.
windowAfter(shown, req, settled) ==
    [panel  |-> {req.arg},
     stored |-> IF settled.state = "fulfilled" THEN {req.arg} ELSE shown.stored]

\* A click on button i of a time-window group: setupButtonGroup's listener moves
\* 'active' and calls the probe; the default button carries a second listener
\* (renderer.js:294, 353, 718) that calls the probe once more.
ClickWindow ==
    \E key \in TimeProbes, i \in 1..3 :
        LET b      == ButtonsOf[key][i]
            act    == activate(active[key], GroupOf(key), b)
            window == WindowOf(key, act)
            calls  == IF i = 2 THEN 2 ELSE 1
            req    == Request(key, window, NoExport)
        IN  /\ clicks < MaxClicks
            /\ clicks' = clicks + 1
            /\ active' = [active EXCEPT ![key] = act]
            /\ panel' = [panel EXCEPT ![key] = "loading"]
            /\ sent' = sent (+) [r \in {req} |-> calls]
            /\ lastClicked' = [lastClicked EXCEPT ![key] = {b}]
            /\ UNCHANGED <<globalResults, lastCompleted, resultWindow,
                           exported, exportedFrom, disk>>
            /\ UNCHANGED <<mainVars, utilVars>>

\* A click on the browser-history button (no key in globalResults).
ClickBrowserHistory ==
    /\ clicks < MaxClicks
    /\ clicks' = clicks + 1
    /\ panel' = [panel EXCEPT !["browserHistory"] = "opening"]
    /\ sent' = sent (+) SetToBag({Request("browserHistory", 0, NoExport)})
    /\ UNCHANGED <<globalResults, active, lastCompleted,
                   exported, exportedFrom, disk>>
    /\ UNCHANGED <<lastClicked, resultWindow>>
    /\ UNCHANGED <<mainVars, utilVars>>

\* An accumulator that is written only after the reply's error check.
StoreUnlessError(acc, key, value) ==
    IF value.error # NoError THEN acc ELSE (key :> value) @@ acc

\* globalResults.<key> = <reply> (renderer.js:144, 187, 259, ...).
Store(acc, key, value) == (key :> value) @@ acc

\* { ...globalResults }: a fresh object with the accumulator's own keys.
Spread(acc) == [k \in DOMAIN acc |-> acc[k]]

\* The panel after the continuation of a probe's click handler.
Rendered(value) == IF value.error # NoError THEN "error" ELSE "shown"

\* One invocation of a probe completes: the main process runs the channel's
\* handler to its settled promise, the awaited invoke settles in the renderer and
\* the click handler's continuation runs. Invocations complete in any order.
Complete ==
    \E req \in BagToSet(sent), outcome \in Outcomes :
        LET settled == IpcHandler(outcome)
        IN  /\ req.key \in ProbeKeys
            /\ sent' = sent (-) SetToBag({req})
            /\ IF settled.state = "fulfilled"
               THEN /\ globalResults' = Store(globalResults, req.key, settled.value)
                    /\ lastCompleted' = (req.key :> settled.value) @@ lastCompleted
                    /\ panel' = [panel EXCEPT ![req.key] = Rendered(settled.value)]
               ELSE /\ panel' = [panel EXCEPT ![req.key] = "error"]
                    /\ UNCHANGED <<globalResults, lastCompleted>>
            /\ resultWindow' =
                   IF req.key \in TimeProbes
                   THEN [resultWindow EXCEPT
                            ![req.key] = windowAfter(resultWindow[req.key], req, settled)]
                   ELSE resultWindow
            /\ UNCHANGED <<active, clicks, exported, exportedFrom, disk, lastClicked>>
            /\ UNCHANGED <<mainVars, utilVars>>

\* Completions that store nothing in the accumulator: browser history and the
\* start-up browser detection.
CompleteOther ==
    \E req \in BagToSet(sent), outcome \in Outcomes :
        LET settled == IpcHandler(outcome)
            failed  == settled.state = "rejected" \/ settled.value.error # NoError
        IN  /\ req.key \in {"browserHistory", "browserInfo"}
            /\ sent' = sent (-) SetToBag({req})
            /\ panel' = IF req.key = "browserHistory"
                        THEN [panel EXCEPT ![req.key] = IF failed THEN "error" ELSE "shown"]
                        ELSE IF failed \/ settled.value.data = "empty"
                        THEN panel
                        ELSE [panel EXCEPT ![req.key] = "shown"]
            /\ UNCHANGED <<globalResults, active, clicks, lastCompleted,
                           exported, exportedFrom, disk>>
            /\ UNCHANGED <<lastClicked, resultWindow>>
            /\ UNCHANGED <<mainVars, utilVars>>

\* The 'export-results' invocation completes: dialog, writeFile, reply, alert.
CompleteExport ==
    \E req \in BagToSet(sent), dialog \in DialogOutcomes, write \in WriteOutcomes :
        /\ req.key = "export"
        /\ sent' = sent (-) SetToBag({req})
        /\ disk' = ExportWrite(disk, req.data, dialog, write)
        /\ UNCHANGED <<globalResults, active, panel, clicks, lastCompleted,
                       exported, exportedFrom>>
        /\ UNCHANGED <<lastClicked, resultWindow>>
        /\ UNCHANGED <<mainVars, utilVars>>

\* The export button: build exportData from the accumulator and invoke 'export-results'.
ExportClick ==
    LET exportData == [built |-> TRUE, results |-> Spread(globalResults)]
    IN  /\ clicks < MaxClicks
        /\ clicks' = clicks + 1
        /\ exported' = exportData
        /\ exportedFrom' = lastCompleted
        /\ sent' = sent (+) SetToBag({Request("export", 0, exportData)})
        /\ UNCHANGED <<globalResults, active, panel, lastCompleted, disk>>
        /\ UNCHANGED <<lastClicked, resultWindow>>
        /\ UNCHANGED <<mainVars, utilVars>>


NoFiles == [p \in {"kenibox_results.json", "notes.txt"} |-> NoExport]

\* DOMContentLoaded: an empty accumulator, the default buttons active, and the two
\* start-up calls of detectCurrentBrowser (renderer.js:135 and 887) in flight.
RendererInit ==
    /\ globalResults = Empty
    /\ active = [k \in TimeProbes |-> {ButtonsOf[k][2]}]
    /\ panel = [k \in PanelKeys |-> "placeholder"]
    /\ sent = [r \in {Request("browserInfo", 0, NoExport)} |-> 2]
    /\ clicks = 0
    /\ lastCompleted = Empty
    /\ exported = NoExport
    /\ exportedFrom = Empty
    /\ lastClicked = [k \in TimeProbes |-> {}]
    /\ resultWindow = [k \in TimeProbes |-> [panel |-> {}, stored |-> {}]]

MainInit ==
    /\ handled = NotHandled

AppInit ==
    /\ RendererInit
    /\ MainInit
    /\ disk = NoFiles

\* The systemUtils functions before any of them is called.
NamesIdle ==
    /\ givenName = <<>>
    /\ guess = Empty

SkipIdle ==
    /\ givenPath = <<>>
    /\ skip = Empty

ProbesIdle ==
    /\ call = [fn |-> "none", variant |-> "none"]
    /\ platform = "win32"
    /\ env = [USERPROFILE |-> TRUE]
    /\ sources = Empty
    /\ returned = Pending

WalkIdle ==
    /\ fsTree = {}
    /\ scanned = Empty

ModsIdle ==
    /\ modsFolder = <<>>
    /\ flagged = Empty

StepsIdle ==
    /\ structure = [chain |-> 0, links |-> "none", denied |-> "none"]
    /\ walker = [fn |-> "none", variant |-> "none"]
    /\ stack = <<>>
    /\ walkResult = <<>>
    /\ deepestRead = 0
    /\ walkStatus = "idle"

RecordingIdle ==
    /\ running = [platform |-> "win32", kind |-> "none", name |-> <<>>]
    /\ recordingStatus = Empty

HistoryIdle ==
    /\ histories = <<>>
    /\ cheatScan = Empty

FilesIdle ==
    /\ fsFiles = {}
    /\ fileOps = {}
    /\ spawned = {}
    /\ clock = 0

OpenIdle ==
    /\ detected = [list |-> <<>>, default |-> 0]
    /\ broken = {}
    /\ brokenGeneric = {}
    /\ opening = Empty

OverlapIdle ==
    /\ runs = Empty
    /\ tempDir = {}
    /\ chromeHistory = [browser |-> "Chrome", query |-> "empty", unlinkRefused |-> FALSE]
    /\ runVariant = "A"
    /\ millis = 0

ServicesIdle ==
    /\ osServices = <<>>
    /\ defenderStarts = <<>>
    /\ stoppedReply = Empty

ExportIdle ==
    /\ exportRun = [ran |-> FALSE]

LinksIdle ==
    /\ location = [variant |-> "A", platform |-> "win32", exists |-> TRUE, isFile |-> TRUE, opens |-> TRUE]
    /\ linkCall = [pc |-> "idle", reply |-> Fulfilled(ResultValue(NoData))]
    /\ linkText = "Abrir ubicacion"

DetectIdle ==
    /\ installedPaths = {}
    /\ osDefault = "Desconocido"
    /\ detectedList = Empty

PanelIdle ==
    /\ views = Empty
    /\ unsettled = EmptyBag
    /\ presses = 0
    /\ replies = Empty

ExtIdle ==
    /\ ModsIdle
    /\ StepsIdle
    /\ RecordingIdle
    /\ HistoryIdle
    /\ FilesIdle
    /\ OpenIdle
    /\ OverlapIdle
    /\ ServicesIdle
    /\ ExportIdle
    /\ LinksIdle
    /\ DetectIdle
    /\ PanelIdle

ExtIdleNotMods ==
    /\ StepsIdle
    /\ RecordingIdle
    /\ HistoryIdle
    /\ FilesIdle
    /\ OpenIdle
    /\ OverlapIdle
    /\ ServicesIdle
    /\ ExportIdle
    /\ LinksIdle
    /\ DetectIdle
    /\ PanelIdle

ExtIdleNotSteps ==
    /\ ModsIdle
    /\ RecordingIdle
    /\ HistoryIdle
    /\ FilesIdle
    /\ OpenIdle
    /\ OverlapIdle
    /\ ServicesIdle
    /\ ExportIdle
    /\ LinksIdle
    /\ DetectIdle
    /\ PanelIdle

ExtIdleNotRecording ==
    /\ ModsIdle
    /\ StepsIdle
    /\ HistoryIdle
    /\ FilesIdle
    /\ OpenIdle
    /\ OverlapIdle
    /\ ServicesIdle
    /\ ExportIdle
    /\ LinksIdle
    /\ DetectIdle
    /\ PanelIdle

ExtIdleNotHistory ==
    /\ ModsIdle
    /\ StepsIdle
    /\ RecordingIdle
    /\ FilesIdle
    /\ OpenIdle
    /\ OverlapIdle
    /\ ServicesIdle
    /\ ExportIdle
    /\ LinksIdle
    /\ DetectIdle
    /\ PanelIdle

ExtIdleNotFiles ==
    /\ ModsIdle
    /\ StepsIdle
    /\ RecordingIdle
    /\ HistoryIdle
    /\ OpenIdle
    /\ OverlapIdle
    /\ ServicesIdle
    /\ ExportIdle
    /\ LinksIdle
    /\ DetectIdle
    /\ PanelIdle

ExtIdleNotOpen ==
    /\ ModsIdle
    /\ StepsIdle
    /\ RecordingIdle
    /\ HistoryIdle
    /\ FilesIdle
    /\ OverlapIdle
    /\ ServicesIdle
    /\ ExportIdle
    /\ LinksIdle
    /\ DetectIdle
    /\ PanelIdle

ExtIdleNotOverlap ==
    /\ ModsIdle
    /\ StepsIdle
    /\ RecordingIdle
    /\ HistoryIdle
    /\ FilesIdle
    /\ OpenIdle
    /\ ServicesIdle
    /\ ExportIdle
    /\ LinksIdle
    /\ DetectIdle
    /\ PanelIdle

ExtIdleNotServices ==
    /\ ModsIdle
    /\ StepsIdle
    /\ RecordingIdle
    /\ HistoryIdle
    /\ FilesIdle
    /\ OpenIdle
    /\ OverlapIdle
    /\ ExportIdle
    /\ LinksIdle
    /\ DetectIdle
    /\ PanelIdle

ExtIdleNotExport ==
    /\ ModsIdle
    /\ StepsIdle
    /\ RecordingIdle
    /\ HistoryIdle
    /\ FilesIdle
    /\ OpenIdle
    /\ OverlapIdle
    /\ ServicesIdle
    /\ LinksIdle
    /\ DetectIdle
    /\ PanelIdle

ExtIdleNotLinks ==
    /\ ModsIdle
    /\ StepsIdle
    /\ RecordingIdle
    /\ HistoryIdle
    /\ FilesIdle
    /\ OpenIdle
    /\ OverlapIdle
    /\ ServicesIdle
    /\ ExportIdle
    /\ DetectIdle
    /\ PanelIdle

ExtIdleNotDetect ==
    /\ ModsIdle
    /\ StepsIdle
    /\ RecordingIdle
    /\ HistoryIdle
    /\ FilesIdle
    /\ OpenIdle
    /\ OverlapIdle
    /\ ServicesIdle
    /\ ExportIdle
    /\ LinksIdle
    /\ PanelIdle

ExtIdleNotPanel ==
    /\ ModsIdle
    /\ StepsIdle
    /\ RecordingIdle
    /\ HistoryIdle
    /\ FilesIdle
    /\ OpenIdle
    /\ OverlapIdle
    /\ ServicesIdle
    /\ ExportIdle
    /\ LinksIdle
    /\ DetectIdle

Init ==
    /\ AppInit
    /\ NamesIdle
    /\ SkipIdle
    /\ ProbesIdle
    /\ WalkIdle
    /\ ExtIdle

Next ==
    \/ ClickProbe
    \/ ClickWindow
    \/ ClickBrowserHistory
    \/ ExportClick
    \/ Complete
    \/ CompleteOther
    \/ CompleteExport

Spec == Init /\ [][Next]_vars

----------------------------------------------------------------------------
(* The main process alone: every registered handler, run on every outcome of *)
(* the call it awaits (SpecMain).                                            *)

\* The export documents the renderer can send.
ExportInputs ==
    {[built |-> TRUE, results |-> Empty],
     [built |-> TRUE, results |-> [jarFiles |-> ResultValue("items")]],
     [built |-> TRUE, results |-> [jarFiles |-> ErrorValue("EACCES")]]}

Handle ==
    \E channel \in SystemChannels, outcome \in Outcomes :
        /\ handled' = [channel |-> channel, outcome |-> outcome,
                       settled |-> IpcHandler(outcome)]
        /\ UNCHANGED disk
        /\ UNCHANGED <<rendererVars, utilVars>>

HandleExport ==
    \E data \in ExportInputs, dialog \in DialogOutcomes, write \in WriteOutcomes :
        /\ handled' = [channel |-> "export-results",
                       outcome |-> IF dialog.throws THEN dialog ELSE write,
                       settled |-> ExportHandler(dialog, write)]
        /\ disk' = ExportWrite(disk, data, dialog, write)
        /\ exportRun' = [ran |-> TRUE, data |-> data, dialog |-> dialog,
                         write |-> write, before |-> disk]
        /\ UNCHANGED <<rendererVars, namesVars, skipVars, probeVars, walkVars, extVarsNotExport>>

NextMain ==
    \/ Handle
    \/ HandleExport

SpecMain == Init /\ [][NextMain]_vars

----------------------------------------------------------------------------
(* getOriginalNameGuess applied to file names (SpecNames) *)

\* The dot-separated parts the file names are built from.
NameWords ==
    {<<"m", "o", "d">>,
     <<"j", "a", "r">>,
     <<"e", "x", "e">>,
     <<"d", "l", "l">>,
     <<"b", "a", "t">>,
     <<"v", "b", "s">>,
     <<"t", "x", "t">>,
     <<"p", "n", "g">>,
     <<"j", "p", "g">>,
     <<"j", "p", "e", "g">>,
     <<"J", "A", "R">>,
     <<"o", "l", "d">>,
     <<"m", "o", "d", "_", "o", "l", "d">>}

FileNames ==
    {join(parts, ".") : parts \in UNION {[1..n -> NameWords] : n \in 1..MaxParts}}

NamesInit ==
    /\ givenName \in FileNames
    /\ guess = Empty

GuessOriginalNameA ==
    /\ "A" \notin DOMAIN guess
    /\ guess' = ("A" :> getOriginalNameGuessA(givenName)) @@ guess
    /\ UNCHANGED <<givenName, appVars, skipVars, probeVars, walkVars, extVars>>

GuessOriginalNameB ==
    /\ "B" \notin DOMAIN guess
    /\ guess' = ("B" :> getOriginalNameGuessB(givenName)) @@ guess
    /\ UNCHANGED <<givenName, appVars, skipVars, probeVars, walkVars, extVars>>

InitNames ==
    /\ AppInit
    /\ NamesInit
    /\ SkipIdle
    /\ ProbesIdle
    /\ WalkIdle
    /\ ExtIdle

NextNames ==
    \/ GuessOriginalNameA
    \/ GuessOriginalNameB

SpecNames == InitNames /\ [][NextNames]_vars

----------------------------------------------------------------------------
(* shouldSkipDirectory applied to directory paths (SpecSkip) *)

\* The directory names the paths are built from.
DirWords ==
    {<<"W", "i", "n", "d", "o", "w", "s">>,
     <<"w", "i", "n", "d", "o", "w", "s">>,
     <<"W", "i", "n", "d", "o", "w", "s", "A", "p", "p", "s">>,
     <<"T", "e", "m", "p">>,
     <<"U", "s", "e", "r", "s">>,
     <<"x">>,
     <<"D", "e", "s", "k", "t", "o", "p">>}

Separators == {"/", "\\"}

\* Paths on drive C: with one to MaxDepth components and either separator.
Directories ==
    {join(<<<<"C", ":">>>> \o comps, sep) :
        comps \in UNION {[1..n -> DirWords] : n \in 1..MaxDepth},
        sep \in Separators}

SkipInit ==
    /\ givenPath \in Directories
    /\ skip = Empty

ShouldSkipA ==
    /\ "A" \notin DOMAIN skip
    /\ skip' = ("A" :> shouldSkipDirectoryA(givenPath)) @@ skip
    /\ UNCHANGED <<givenPath, appVars, namesVars, probeVars, walkVars, extVars>>

ShouldSkipB ==
    /\ "B" \notin DOMAIN skip
    /\ skip' = ("B" :> shouldSkipDirectoryB(givenPath)) @@ skip
    /\ UNCHANGED <<givenPath, appVars, namesVars, probeVars, walkVars, extVars>>

InitSkip ==
    /\ AppInit
    /\ NamesIdle
    /\ SkipInit
    /\ ProbesIdle
    /\ WalkIdle
    /\ ExtIdle

NextSkip ==
    \/ ShouldSkipA
    \/ ShouldSkipB

SpecSkip == InitSkip /\ [][NextSkip]_vars

----------------------------------------------------------------------------
(* The multi-source probes called on what their sources yield (SpecProbes) *)

Platforms == {"win32", "darwin", "linux"}

Calls ==
    {[fn |-> "getRecentlyDeletedFiles", variant |-> "A"],
     [fn |-> "getRecentlyDeletedFiles", variant |-> "B"],
     [fn |-> "getRecentlyExecutedJars", variant |-> "A"],
     [fn |-> "getRecentlyExecutedJars", variant |-> "B"],
     [fn |-> "getCompleteExecutionHistory", variant |-> "A"],
     [fn |-> "getCompleteExecutionHistory", variant |-> "B"],
     [fn |-> "detectMinecraftCheats", variant |-> "A"]}

\* The sources a call reads on a platform.
SourcesOf(c, plat) ==
    IF c.fn = "getRecentlyDeletedFiles"
    THEN IF plat = "win32" THEN {"trash", "eventLog"} ELSE {"trash"}
    ELSE IF c.fn = "getRecentlyExecutedJars" /\ c.variant = "A"
    THEN IF plat = "win32" THEN {"registry", "execHistory", "javaLogs"}
         ELSE {"execHistory", "javaLogs"}
    ELSE IF c.fn = "getRecentlyExecutedJars"
    THEN IF plat = "win32" THEN {"processes", "eventLog", "prefetch", "folders"}
         ELSE {"processes"}
    ELSE IF c.fn = "getCompleteExecutionHistory" /\ c.variant = "A"
    THEN IF plat = "win32" THEN {"prefetch", "registry", "eventLog"}
         ELSE {"launchLog", "processes"}
    ELSE IF c.fn = "getCompleteExecutionHistory"
    THEN IF plat = "win32" THEN {"processes", "prefetch"} ELSE {"processes"}
    ELSE {"browserHistory", "modFolders", "processes"}

aJar == <<"a", ".", "j", "a", "r">>
upperAJar == <<"A", ".", "J", "A", "R">>
bJar == <<"b", ".", "j", "a", "r">>
javaExe == <<"j", "a", "v", "a", ".", "e", "x", "e">>
javaPf == <<"J", "A", "V", "A", ".", "E", "X", "E", "-", "1", "A", "2", "B">>

\* The entries a source can hold. Directory entries carry the mtime of a file;
\* an event-log record carries the text of a timestamp, which may not parse.
EntriesOf(c, source) ==
    IF c.fn = "getRecentlyDeletedFiles"
    THEN IF source = "trash"
         THEN {Finding(aJar, Time(1)), Finding(bJar, Time(1)), Finding(aJar, Time(2))}
         ELSE {Finding(aJar, NaN), Finding(bJar, Time(1)), Finding(bJar, Time(2))}
    ELSE IF c.fn = "getRecentlyExecutedJars"
    THEN IF source \in {"registry", "processes"}
         THEN {Finding(aJar, Time(2)), Finding(bJar, Time(1))}
         ELSE IF source = "prefetch" THEN {Finding(javaPf, Time(1))}
         ELSE IF source = "execHistory" THEN {Finding(javaExe, Time(2)), Finding(bJar, Time(1))}
         ELSE {Finding(upperAJar, Time(1))}
    ELSE IF c.fn = "getCompleteExecutionHistory"
    THEN IF source = "eventLog"
         THEN {Finding(javaExe, Time(1)), Nameless(Time(1))}
         ELSE {Finding(javaExe, Time(2)), Finding(aJar, Time(1))}
    ELSE {Finding(aJar, Time(1))}

\* Lists of at most n entries.
ListsOf(entries, n) == UNION {[1..k -> entries] : k \in 0..n}

SourceOutcomes(c, source) ==
    {Fails} \cup {Yields(found) : found \in ListsOf(EntriesOf(c, source), MaxFound)}

ProbesInit ==
    /\ call \in Calls
    /\ platform \in Platforms
    /\ env \in [USERPROFILE : BOOLEAN]
    /\ sources \in {src \in [SourcesOf(call, platform) ->
                                UNION {SourceOutcomes(call, s) : s \in SourcesOf(call, platform)}] :
                       \A s \in DOMAIN src : src[s] \in SourceOutcomes(call, s)}
    /\ returned = Pending

GetRecentlyDeletedFilesA ==
    /\ call = [fn |-> "getRecentlyDeletedFiles", variant |-> "A"]
    /\ ~returned.settled
    /\ returned' = getRecentlyDeletedFilesA(platform, env, sources)
    /\ UNCHANGED <<call, platform, env, sources, appVars, namesVars, skipVars, walkVars, extVars>>

GetRecentlyDeletedFilesB ==
    /\ call = [fn |-> "getRecentlyDeletedFiles", variant |-> "B"]
    /\ ~returned.settled
    /\ returned' = getRecentlyDeletedFilesB(platform, env, sources)
    /\ UNCHANGED <<call, platform, env, sources, appVars, namesVars, skipVars, walkVars, extVars>>

GetRecentlyExecutedJarsA ==
    /\ call = [fn |-> "getRecentlyExecutedJars", variant |-> "A"]
    /\ ~returned.settled
    /\ returned' = getRecentlyExecutedJarsA(platform, sources)
    /\ UNCHANGED <<call, platform, env, sources, appVars, namesVars, skipVars, walkVars, extVars>>

GetRecentlyExecutedJarsB ==
    /\ call = [fn |-> "getRecentlyExecutedJars", variant |-> "B"]
    /\ ~returned.settled
    /\ returned' = getRecentlyExecutedJarsB(platform, sources)
    /\ UNCHANGED <<call, platform, env, sources, appVars, namesVars, skipVars, walkVars, extVars>>

GetCompleteExecutionHistoryA ==
    /\ call = [fn |-> "getCompleteExecutionHistory", variant |-> "A"]
    /\ ~returned.settled
    /\ returned' = getCompleteExecutionHistoryA(platform, sources)
    /\ UNCHANGED <<call, platform, env, sources, appVars, namesVars, skipVars, walkVars, extVars>>

GetCompleteExecutionHistoryB ==
    /\ call = [fn |-> "getCompleteExecutionHistory", variant |-> "B"]
    /\ ~returned.settled
    /\ returned' = getCompleteExecutionHistoryB(platform, sources)
    /\ UNCHANGED <<call, platform, env, sources, appVars, namesVars, skipVars, walkVars, extVars>>

DetectMinecraftCheatsA ==
    /\ call = [fn |-> "detectMinecraftCheats", variant |-> "A"]
    /\ ~returned.settled
    /\ returned' = detectMinecraftCheatsA(sources)
    /\ UNCHANGED <<call, platform, env, sources, appVars, namesVars, skipVars, walkVars, extVars>>

InitProbes ==
    /\ AppInit
    /\ NamesIdle
    /\ SkipIdle
    /\ ProbesInit
    /\ WalkIdle
    /\ ExtIdle

NextProbes ==
    \/ GetRecentlyDeletedFilesA
    \/ GetRecentlyDeletedFilesB
    \/ GetRecentlyExecutedJarsA
    \/ GetRecentlyExecutedJarsB
    \/ GetCompleteExecutionHistoryA
    \/ GetCompleteExecutionHistoryB
    \/ DetectMinecraftCheatsA

SpecProbes == InitProbes /\ [][NextProbes]_vars

----------------------------------------------------------------------------
(* The scanners run over the files of the drive (SpecWalk) *)

\* The files the drive can hold.
DriveFiles ==
    {File(<<<<"f", "o", "o", ".", "j", "a", "r">>>>, 0),
     File(<<<<"b", "a", "r", ".", "e", "x", "e", ".", "t", "x", "t">>>>, 0),
     File(<<<<"s", "k", "i", "p">>, <<"W", "i", "n", "d", "o", "w", "s">>, <<"x", ".", "j", "a", "r">>>>, 0),
     File(<<<<"U", "s", "e", "r", "s">>, <<"x">>, <<"D", "o", "w", "n", "l", "o", "a", "d", "s">>, <<"f", "o", "o", ".", "j", "a", "r">>>>, 0),
     File(<<<<"U", "s", "e", "r", "s">>, <<"x">>, <<"D", "o", "w", "n", "l", "o", "a", "d", "s">>, <<"m", "o", "d", ".", "j", "a", "r", ".", "t", "x", "t">>>>, 0),
     File(<<<<"U", "s", "e", "r", "s">>, <<"x">>, <<"D", "o", "w", "n", "l", "o", "a", "d", "s">>, <<"W", "i", "n", "d", "o", "w", "s">>, <<"e", "v", "i", "l", ".", "e", "x", "e", ".", "t", "x", "t">>>>, 0),
     File(<<<<"U", "s", "e", "r", "s">>, <<"x">>, <<"D", "o", "w", "n", "l", "o", "a", "d", "s">>, <<"f", "o", "o", ".", "t", "x", "t">>>>, 0),
     File(<<<<"W", "i", "n", "d", "o", "w", "s", "A", "p", "p", "s">>, <<"a", ".", "j", "a", "r">>>>, 0),
     File(<<<<"U", "s", "e", "r", "s">>, <<"x">>, <<"D", "e", "s", "k", "t", "o", "p">>, <<"o", "l", "d", ".", "d", "l", "l", ".", "t", "x", "t">>>>, 30),
     File(<<<<"a", ".", "j", "a", "r">>>>, 5)}

WalkInit ==
    /\ fsTree \in {tree \in SUBSET DriveFiles : Cardinality(tree) <= MaxFiles}
    /\ scanned = Empty

FindAllJarFilesA ==
    /\ "findAllJarFilesA" \notin DOMAIN scanned
    /\ scanned' = ("findAllJarFilesA" :> findAllJarFilesA(fsTree)) @@ scanned
    /\ UNCHANGED <<fsTree, appVars, namesVars, skipVars, probeVars, extVars>>

FindAllJarFilesB ==
    /\ "findAllJarFilesB" \notin DOMAIN scanned
    /\ scanned' = ("findAllJarFilesB" :> findAllJarFilesB(fsTree)) @@ scanned
    /\ UNCHANGED <<fsTree, appVars, namesVars, skipVars, probeVars, extVars>>

CheckFileExtensionChangesA ==
    /\ "checkFileExtensionChangesA" \notin DOMAIN scanned
    /\ scanned' = ("checkFileExtensionChangesA" :> checkFileExtensionChangesA(fsTree))
                      @@ scanned
    /\ UNCHANGED <<fsTree, appVars, namesVars, skipVars, probeVars, extVars>>

CheckFileExtensionChangesB ==
    /\ "checkFileExtensionChangesB" \notin DOMAIN scanned
    /\ scanned' = ("checkFileExtensionChangesB" :> checkFileExtensionChangesB(fsTree))
                      @@ scanned
    /\ UNCHANGED <<fsTree, appVars, namesVars, skipVars, probeVars, extVars>>

InitWalk ==
    /\ AppInit
    /\ NamesIdle
    /\ SkipIdle
    /\ ProbesIdle
    /\ WalkInit
    /\ ExtIdle

NextWalk ==
    \/ FindAllJarFilesA
    \/ FindAllJarFilesB
    \/ CheckFileExtensionChangesA
    \/ CheckFileExtensionChangesB

SpecWalk == InitWalk /\ [][NextWalk]_vars

----------------------------------------------------------------------------
(* The mod scanners run over a mods folder (SpecMods) *)

\* The words the mod file names are built from.
ModWords ==
    {<<"O", "p", "t", "i", "F", "i", "n", "e">>,
     <<"1", ".", "1", "9">>,
     <<"k", "i", "l", "l", "a", "u", "r", "a">>,
     <<"c", "l", "i", "e", "n", "t">>,
     <<"X", "R", "a", "y">>,
     <<"b", "e", "t", "t", "e", "r">>,
     <<"m", "o", "d">>}

\* File names of one or two words joined by '-', ending in .jar or .zip.
ModNames ==
    {join(ws, "-") \o ext :
        ws \in UNION {[1..n -> ModWords] : n \in 1..2},
        ext \in {dotJar, dotZip}}

ModsInit ==
    /\ modsFolder \in UNION {[1..n -> ModNames] : n \in 0..MaxMods}
    /\ flagged = Empty

CheckMinecraftModFolders ==
    /\ "checkMinecraftModFolders" \notin DOMAIN flagged
    /\ flagged' = ("checkMinecraftModFolders" :> checkMinecraftModFolders(modsFolder)) @@ flagged
    /\ UNCHANGED <<modsFolder, appVars, namesVars, skipVars, probeVars, walkVars, extVarsNotMods>>

ScanMinecraftMods ==
    /\ "scanMinecraftMods" \notin DOMAIN flagged
    /\ flagged' = ("scanMinecraftMods" :> scanMinecraftMods(modsFolder)) @@ flagged
    /\ UNCHANGED <<modsFolder, appVars, namesVars, skipVars, probeVars, walkVars, extVarsNotMods>>

InitMods ==
    /\ AppInit
    /\ NamesIdle
    /\ SkipIdle
    /\ ProbesIdle
    /\ WalkIdle
    /\ ModsInit
    /\ ExtIdleNotMods

NextMods ==
    \/ CheckMinecraftModFolders
    \/ ScanMinecraftMods

SpecMods == InitMods /\ [][NextMods]_vars

----------------------------------------------------------------------------
(* The recursive walks, one directory listing or one entry at a time, over  *)
(* directory structures with links and with denied access (SpecSteps)       *)

\* The names of the entries: a.jar and z.jar are files, d is a subdirectory, l
\* is a link to a directory.
zJar == <<"z", ".", "j", "a", "r">>
subdirName == <<"d">>
linkName == <<"l">>

\* The four walks.
Walkers ==
    [fn : {"searchJarFilesRecursively", "findRecentlyModifiedFiles"},
     variant : {"A", "B"}]

\* Where the links are: from the search root or from the deepest directory, to
\* the search root or to the deepest directory.
LinkShapes == {"none", "rootToRoot", "bottomToRoot", "bottomToBottom"}

\* What the operating system denies: the listing of the search root or of its
\* subdirectory, or the metadata of the root's a.jar or of its subdirectory.
PermissionCases == {"none", "listRoot", "listSub", "statJar", "statSub"}

\* A directory structure: a chain of directories d below the search root, each
\* holding a.jar, the root holding z.jar too. The chains with a link or a
\* denied access are the short ones.
Structures ==
    {s \in [chain : 0..MaxChain, links : LinkShapes, denied : PermissionCases] :
        /\ s.links = "none" \/ s.denied = "none"
        /\ s.chain > 1 => s.links = "none" /\ s.denied = "none"}

Entry(name, kind, to) == [name |-> name, kind |-> kind, to |-> to]

\* The links in a directory of the structure.
linksAt(node, s) ==
    LET bottom == s.chain
    IN  CASE s.links = "rootToRoot" /\ node = 0 -> <<Entry(linkName, "link", 0)>>
          [] s.links = "bottomToRoot" /\ node = bottom -> <<Entry(linkName, "link", 0)>>
          [] s.links = "bottomToBottom" /\ node = bottom ->
                 <<Entry(linkName, "link", bottom)>>
          [] OTHER -> <<>>

\* fs.readdir of a directory of the structure, in listing order.
entriesOf(node, s) ==
    <<Entry(aJar, "file", node)>>
        \o (IF node < s.chain THEN <<Entry(subdirName, "dir", node + 1)>> ELSE <<>>)
        \o linksAt(node, s)
        \o (IF node = 0 THEN <<Entry(zJar, "file", node)>> ELSE <<>>)

\* readdir fails with EACCES
listFails(node, s) ==
    \/ s.denied = "listRoot" /\ node = 0
    \/ s.denied = "listSub" /\ node = 1

\* stat fails with EPERM
statFails(node, entry, s) ==
    \/ s.denied = "statJar" /\ node = 0 /\ entry.name = aJar
    \/ s.denied = "statSub" /\ node = 0 /\ entry.name = subdirName

\* The depth cap of each walk.
depthLimit(w) ==
    CASE w.fn = "searchJarFilesRecursively" /\ w.variant = "A" -> JarDepthLimitA
      [] w.fn = "searchJarFilesRecursively" /\ w.variant = "B" -> JarDepthLimitB
      [] w.fn = "findRecentlyModifiedFiles" /\ w.variant = "A" -> ModifiedDepthLimitA
      [] w.fn = "findRecentlyModifiedFiles" /\ w.variant = "B" -> ModifiedDepthLimitB

\* A depth test that lets one more level through.
tooDeepOffByOne(depth, limit) == depth > limit + 1

\* if (depth > 15) return;
tooDeep(depth, limit) == depth > limit

\* A call of the walk on a directory: the directory, its path below the search
\* root, its depth, and the entry its loop is at (0 before the listing is read).
Frame(node, path, depth) == [node |-> node, path |-> path, depth |-> depth, next |-> 0]

\* The walk's call returns: its frame leaves the stack.
return(frames) == SubSeq(frames, 1, Len(frames) - 1)

\* The loop of the top frame moves to the next entry.
continue(frames) ==
    [frames EXCEPT ![Len(frames)].next = @ + 1]

\* The recursive call on an entry of the top frame.
recurse(frames, entry) ==
    LET top == frames[Len(frames)]
    IN  continue(frames) \o <<Frame(entry.to, top.path \o <<entry.name>>, top.depth + 1)>>

\* A catch around the whole loop instead of around one entry: the loop ends.
catchItemErrorEndsLoop(frames) == return(frames)

\* catch (error) around one entry: the error is ignored, the loop goes on.
catchItemError(frames) == continue(frames)

\* catch (error) around the listing: the error is ignored, the call returns.
catchDirectoryError(frames) == return(frames)

\* The entry pushed to the result for a file.
foundFile(path) ==
    [name |-> path[Len(path)], path |-> fullPath(path), time |-> Time(now)]

\* Whether the walk skips the directory before listing it (variant A).
skipsOnEntry(w, path) ==
    w.variant = "A" /\ shouldSkipDirectoryA(fullPath(path))

\* One pass of the loop body on an entry: the stack and the result after it.
processItem(w, s, frames, result) ==
    LET top   == frames[Len(frames)]
        entry == entriesOf(top.node, s)[top.next]
        item  == top.path \o <<entry.name>>
        failed == statFails(top.node, entry, s)
        ignored == [frames |-> catchItemError(frames), result |-> result]
        skipped == [frames |-> continue(frames), result |-> result]
        pushed  == [frames |-> continue(frames), result |-> Append(result, foundFile(item))]
        entered == [frames |-> recurse(frames, entry), result |-> result]
    IN  CASE w.fn = "searchJarFilesRecursively" /\ w.variant = "A" ->
                 \* Dirent.isDirectory is false for a link
                 IF entry.kind = "dir" THEN entered
                 ELSE IF endsWith(toLowerCase(entry.name), dotJar)
                      THEN IF failed THEN ignored ELSE pushed
                      ELSE skipped
          [] w.fn = "searchJarFilesRecursively" /\ w.variant = "B" ->
                 \* fs.stat follows a link to its directory
                 IF startsWith(entry.name, <<".">>, 1) THEN skipped
                 ELSE IF failed THEN ignored
                 ELSE IF entry.kind \in {"dir", "link"}
                      THEN IF ~shouldSkipDirectoryB(fullPath(item)) THEN entered
                           ELSE skipped
                      ELSE IF endsWith(entry.name, dotJar) THEN pushed ELSE skipped
          [] w.fn = "findRecentlyModifiedFiles" /\ w.variant = "A" ->
                 IF entry.kind = "dir" THEN entered
                 ELSE IF failed THEN ignored
                 ELSE IF \E k \in 1..Len(suspiciousExtensions) :
                             includes(toLowerCase(entry.name), suspiciousExtensions[k])
                      THEN pushed ELSE skipped
          [] w.fn = "findRecentlyModifiedFiles" /\ w.variant = "B" ->
                 IF failed THEN ignored
                 ELSE IF entry.kind \in {"dir", "link"} /\ ~startsWith(entry.name, <<".">>, 1)
                      THEN entered
                 ELSE IF entry.kind = "file" THEN pushed
                 ELSE skipped

\* The walk is over when the call on the search root has returned.
statusAfter(frames) == IF frames = <<>> THEN "returned" ELSE "running"

StepsInit ==
    /\ structure \in Structures
    /\ walker \in Walkers
    /\ stack = <<>>
    /\ walkResult = <<>>
    /\ deepestRead = 0
    /\ walkStatus = "idle"

\* The caller calls the walk on the search root with depth 0.
CallWalk ==
    /\ walkStatus = "idle"
    /\ stack' = <<Frame(0, <<>>, 0)>>
    /\ walkStatus' = "running"
    /\ UNCHANGED <<structure, walker, walkResult, deepestRead>>
    /\ UNCHANGED <<appVars, namesVars, skipVars, probeVars, walkVars, extVarsNotSteps>>

\* The head of the walk: the depth cap, the skip test, the listing.
EnterDirectory ==
    /\ walkStatus = "running"
    /\ stack[Len(stack)].next = 0
    /\ LET top == stack[Len(stack)]
       IN  IF tooDeep(top.depth, depthLimit(walker)) \/ skipsOnEntry(walker, top.path)
           THEN /\ stack' = return(stack)
                /\ UNCHANGED deepestRead
           ELSE IF listFails(top.node, structure)
           THEN /\ stack' = catchDirectoryError(stack)
                /\ UNCHANGED deepestRead
           ELSE /\ stack' = continue(stack)
                /\ deepestRead' = IF top.depth > deepestRead THEN top.depth ELSE deepestRead
    /\ walkStatus' = statusAfter(stack')
    /\ UNCHANGED <<structure, walker, walkResult>>
    /\ UNCHANGED <<appVars, namesVars, skipVars, probeVars, walkVars, extVarsNotSteps>>

\* One pass of the loop over the listing.
ProcessItem ==
    /\ walkStatus = "running"
    /\ LET top == stack[Len(stack)]
       IN  /\ top.next \in 1..Len(entriesOf(top.node, structure))
           /\ LET after == processItem(walker, structure, stack, walkResult)
              IN  /\ stack' = after.frames
                  /\ walkResult' = after.result
    /\ walkStatus' = statusAfter(stack')
    /\ UNCHANGED <<structure, walker, deepestRead>>
    /\ UNCHANGED <<appVars, namesVars, skipVars, probeVars, walkVars, extVarsNotSteps>>

\* The loop is through: the call returns.
LeaveDirectory ==
    /\ walkStatus = "running"
    /\ LET top == stack[Len(stack)]
       IN  top.next > Len(entriesOf(top.node, structure))
    /\ stack' = return(stack)
    /\ walkStatus' = statusAfter(stack')
    /\ UNCHANGED <<structure, walker, walkResult, deepestRead>>
    /\ UNCHANGED <<appVars, namesVars, skipVars, probeVars, walkVars, extVarsNotSteps>>

InitSteps ==
    /\ AppInit
    /\ NamesIdle
    /\ SkipIdle
    /\ ProbesIdle
    /\ WalkIdle
    /\ StepsInit
    /\ ExtIdleNotSteps

NextSteps ==
    \/ CallWalk
    \/ EnterDirectory
    \/ ProcessItem
    \/ LeaveDirectory

\* The event loop runs every pending continuation of the walk.
SpecSteps == InitSteps /\ [][NextSteps]_vars /\ WF_vars(NextSteps)

----------------------------------------------------------------------------
(* checkScreenRecording with one process, service or device running (SpecRecording) *)

\* The words the names are built from.
RunningWords ==
    {<<"O", "B", "S">>,
     <<"o", "b", "s", "-", "s", "t", "u", "d", "i", "o">>,
     <<"T", "e", "a", "m", "V", "i", "e", "w", "e", "r">>,
     <<"A", "d", "o", "b", "e">>,
     <<"C", "a", "p", "t", "u", "r", "e">>,
     <<"S", "e", "r", "v", "i", "c", "e">>,
     <<"C", "a", "m", "e", "r", "a">>,
     <<"W", "e", "b", "c", "a", "m">>,
     <<"f", "f", "m", "p", "e", "g">>,
     <<"n", "o", "t", "e", "p", "a", "d">>}

\* Names of one or two words, joined by a space or a hyphen.
RunningNames ==
    RunningWords \cup
    {first \o <<sep>> \o second :
        first \in RunningWords, second \in RunningWords, sep \in {" ", "-"}}

\* What is running: a process on any platform, a service or a capture device
\* on Windows.
RunningThings ==
    {r \in [platform : Platforms, kind : {"process", "service", "device"},
             name : RunningNames] :
        r.kind # "process" => r.platform = "win32"}

RecordingInit ==
    /\ running \in RunningThings
    /\ recordingStatus = Empty

CheckScreenRecordingA ==
    /\ "A" \notin DOMAIN recordingStatus
    /\ recordingStatus' = ("A" :> checkScreenRecordingA(running)) @@ recordingStatus
    /\ UNCHANGED <<running, appVars, namesVars, skipVars, probeVars, walkVars, extVarsNotRecording>>

CheckScreenRecordingB ==
    /\ "B" \notin DOMAIN recordingStatus
    /\ recordingStatus' = ("B" :> checkScreenRecordingB(running)) @@ recordingStatus
    /\ UNCHANGED <<running, appVars, namesVars, skipVars, probeVars, walkVars, extVarsNotRecording>>

InitRecording ==
    /\ AppInit
    /\ NamesIdle
    /\ SkipIdle
    /\ ProbesIdle
    /\ WalkIdle
    /\ RecordingInit
    /\ ExtIdleNotRecording

NextRecording ==
    \/ CheckScreenRecordingA
    \/ CheckScreenRecordingB

SpecRecording == InitRecording /\ [][NextRecording]_vars

----------------------------------------------------------------------------
(* Browser-history inspection: the temporary copies (SpecHistory) *)

Browsers == <<"Chrome", "Firefox", "Edge">>

\* What the query command does on the copy: it prints rows, prints nothing,
\* fails, or prints text that is no JSON.
QueryOutcomes == {"rows", "empty", "fails", "garbage"}

\* A history file that exists: its browser, the outcome of the query command on
\* its copy, and whether the operating system lets the copy be deleted.
HistoryFiles == [browser : {Browsers[k] : k \in 1..Len(Browsers)},
                 query : QueryOutcomes, unlinkRefused : BOOLEAN]

\* The history files found, in the order in which the function looks for them.
HistoryLists ==
    {list \in UNION {[1..n -> HistoryFiles] : n \in 0..Len(Browsers)} :
        \A i, j \in 1..Len(list) :
            i < j => \E a, b \in 1..Len(Browsers) :
                         a < b /\ list[i].browser = Browsers[a] /\ list[j].browser = Browsers[b]}

\* Variant A's temporary path: history_<Date.now()>.db, the clock moving on
\* between two copies.
tempHistoryPathA(stamp) == [name |-> "history.db", stamp |-> stamp]

\* Variant B's temporary paths.
tempHistoryPathB(browser) ==
    [name |-> CASE browser = "Chrome" -> "temp_chrome_history"
                [] browser = "Firefox" -> "temp_firefox_places"
                [] browser = "Edge" -> "temp_edge_history",
     stamp |-> 0]

\* fs.unlinkSync: the file is gone unless the deletion is refused.
unlinkSync(tempFiles, path, refused) ==
    IF refused THEN tempFiles ELSE tempFiles \ {path}

\* JSON.parse of the command's output and the loop over the entries: the sites
\* pushed, none when the output does not parse.
sitesOf(historyFile) ==
    IF historyFile.query = "rows" THEN <<historyFile.browser>> ELSE <<>>

\* checkBrowserHistoryFiles (variant A) on win32, from the k-th history file on:
\* the temporary directory and result.sitesDetected afterwards.
RECURSIVE checkBrowserHistoryFiles(_, _, _)
checkBrowserHistoryFiles(historyPaths, k, state) ==
    IF k > Len(historyPaths) THEN state
    ELSE LET historyFile == historyPaths[k]
             tempHistoryPath == tempHistoryPathA(k)
             copied == state.tempFiles \cup {tempHistoryPath}
         IN  checkBrowserHistoryFiles(historyPaths, k + 1,
                 IF historyFile.query = "fails"
                 THEN \* execAsync rejects: the catch of the loop body logs it
                      [state EXCEPT !.tempFiles = copied]
                 ELSE [tempFiles |-> unlinkSync(copied, tempHistoryPath,
                                                historyFile.unlinkRefused),
                       sites |-> state.sites \o sitesOf(historyFile)])

\* detectMinecraftCheats (variant B) on win32, from the k-th history file on.
RECURSIVE detectMinecraftCheatsB(_, _, _)
detectMinecraftCheatsB(historyPaths, k, state) ==
    IF k > Len(historyPaths) THEN state
    ELSE LET historyFile == historyPaths[k]
             tempHistoryPath == tempHistoryPathB(historyFile.browser)
             copied == state.tempFiles \cup {tempHistoryPath}
             \* .catch(() => ({ stdout: '[]' })): a failed command reads as no rows
         IN  detectMinecraftCheatsB(historyPaths, k + 1,
                 [tempFiles |-> unlinkSync(copied, tempHistoryPath,
                                           historyFile.unlinkRefused),
                  sites |-> state.sites \o sitesOf(historyFile)])

NothingScanned == [tempFiles |-> {}, sites |-> <<>>]

HistoryInit ==
    /\ histories \in HistoryLists
    /\ cheatScan = Empty

CheckBrowserHistoryFiles ==
    /\ "A" \notin DOMAIN cheatScan
    /\ cheatScan' = ("A" :> checkBrowserHistoryFiles(histories, 1, NothingScanned))
                        @@ cheatScan
    /\ UNCHANGED <<histories, appVars, namesVars, skipVars, probeVars, walkVars, extVarsNotHistory>>

DetectMinecraftCheatsB ==
    /\ "B" \notin DOMAIN cheatScan
    /\ cheatScan' = ("B" :> detectMinecraftCheatsB(histories, 1, NothingScanned))
                        @@ cheatScan
    /\ UNCHANGED <<histories, appVars, namesVars, skipVars, probeVars, walkVars, extVarsNotHistory>>

InitHistory ==
    /\ AppInit
    /\ NamesIdle
    /\ SkipIdle
    /\ ProbesIdle
    /\ WalkIdle
    /\ HistoryInit
    /\ ExtIdleNotHistory

NextHistory ==
    \/ CheckBrowserHistoryFiles
    \/ DetectMinecraftCheatsB

SpecHistory == InitHistory /\ [][NextHistory]_vars

----------------------------------------------------------------------------
(* The files that systemUtils creates and deletes (SpecFiles) *)

\* The most readings of Date.now() that name a file.
MaxClock == 2

appPath == [name |-> "app.exe", stamp |-> 0]
psHistoryPath == [name |-> "ConsoleHost_history.txt", stamp |-> 0]

\* path.join(os.tmpdir(), `cmd_history_${Date.now()}.txt`)
cmdHistoryPath(stamp) == [name |-> "cmd_history.txt", stamp |-> stamp]

\* path.join(os.tmpdir(), `delete_${Date.now()}.bat`)
tempBatPath(stamp) == [name |-> "delete.bat", stamp |-> stamp]

\* The names of the temporary copies of browser history files.
historyCopyNames ==
    {tempHistoryPathA(0).name} \cup
    {tempHistoryPathB(Browsers[k]).name : k \in 1..Len(Browsers)}

FileOp(op, file) == [op |-> op, name |-> file.name]

\* What `cmd.exe /c doskey /history > file` does: it succeeds, or the shell
\* opens the redirection target and the command then fails, or the shell
\* cannot be started.
DoskeyOutcomes == {"ok", "exitCode", "noShell"}

\* getCommandHistory (variant A) on win32: the PowerShell history is read, the
\* CMD history goes through a temporary file.
GetCommandHistoryA ==
    /\ clock < MaxClock
    /\ \E doskey \in DoskeyOutcomes, unlinked \in BOOLEAN :
        LET tempHistoryPath == cmdHistoryPath(clock)
            readPs == IF psHistoryPath \in fsFiles
                      THEN {FileOp("read", psHistoryPath)} ELSE {}
        IN  CASE doskey = "ok" ->
                   \* existsSync, readFile, then fs.unlink(path, () => {})
                   /\ fsFiles' = IF unlinked THEN fsFiles \ {tempHistoryPath}
                                 ELSE fsFiles \cup {tempHistoryPath}
                   /\ fileOps' = fileOps \cup readPs
                                     \cup {FileOp("create", tempHistoryPath),
                                           FileOp("read", tempHistoryPath)}
                                     \cup (IF unlinked
                                           THEN {FileOp("delete", tempHistoryPath)}
                                           ELSE {})
              [] doskey = "exitCode" ->
                   \* execAsync rejects; the catch logs
                   /\ fsFiles' = fsFiles \cup {tempHistoryPath}
                   /\ fileOps' = fileOps \cup readPs
                                     \cup {FileOp("create", tempHistoryPath)}
              [] doskey = "noShell" ->
                   /\ fsFiles' = fsFiles
                   /\ fileOps' = fileOps \cup readPs
    /\ clock' = clock + 1
    /\ UNCHANGED <<spawned, appVars, namesVars, skipVars, probeVars, walkVars, extVarsNotFiles>>

\* getCommandHistory (variant B) on win32: the PowerShell history is read and
\* doskey's output is taken from the pipe.
GetCommandHistoryB ==
    /\ psHistoryPath \in fsFiles
    /\ FileOp("read", psHistoryPath) \notin fileOps
    /\ fileOps' = fileOps \cup {FileOp("read", psHistoryPath)}
    /\ UNCHANGED <<fsFiles, spawned, clock, appVars, namesVars, skipVars, probeVars, walkVars, extVarsNotFiles>>

\* registerSelfDestruct: the script is written to the temporary directory and
\* started detached.
RegisterSelfDestruct ==
    /\ clock < MaxClock
    /\ fsFiles' = fsFiles \cup {tempBatPath(clock)}
    /\ fileOps' = fileOps \cup {FileOp("create", tempBatPath(clock))}
    /\ spawned' = spawned \cup {tempBatPath(clock)}
    /\ clock' = clock + 1
    /\ UNCHANGED <<appVars, namesVars, skipVars, probeVars, walkVars, extVarsNotFiles>>

\* The script that registerSelfDestruct started, once tasklist no longer shows
\* the application: del /F /Q appPath, del /F /Q %~f0.
SelfDestructScript ==
    \E bat \in spawned :
        /\ fsFiles' = fsFiles \ {appPath, bat}
        /\ fileOps' = fileOps \cup {FileOp("delete", f) : f \in fsFiles \cap {appPath, bat}}
        /\ spawned' = spawned \ {bat}
        /\ UNCHANGED <<clock, appVars, namesVars, skipVars, probeVars, walkVars, extVarsNotFiles>>

\* At most one browser has a history file.
FewHistories == {list \in HistoryLists : Len(list) <= 1}

\* No copy of a history file has been made under one of these names.
notCopiedYet(names) == \A o \in fileOps : o.name \notin names

\* The file operations of a browser-history inspection that left `left` of the
\* copies `made`.
historyOps(made, left) ==
    {FileOp("create", f) : f \in made} \cup {FileOp("delete", f) : f \in made \ left}

\* detectMinecraftCheats (variant A): the temporary copies of
\* checkBrowserHistoryFiles.
DetectMinecraftCheatsFilesA ==
    \E historyPaths \in FewHistories :
        LET left == checkBrowserHistoryFiles(historyPaths, 1, NothingScanned).tempFiles
            made == {tempHistoryPathA(k) : k \in 1..Len(historyPaths)}
        IN  /\ notCopiedYet({f.name : f \in made})
            /\ fsFiles' = fsFiles \cup left
            /\ fileOps' = fileOps \cup historyOps(made, left)
            /\ UNCHANGED <<spawned, clock, appVars, namesVars, skipVars, probeVars, walkVars, extVarsNotFiles>>

\* detectMinecraftCheats (variant B): its temporary copies.
DetectMinecraftCheatsFilesB ==
    \E historyPaths \in FewHistories :
        LET left == detectMinecraftCheatsB(historyPaths, 1, NothingScanned).tempFiles
            made == {tempHistoryPathB(historyPaths[k].browser) : k \in 1..Len(historyPaths)}
        IN  /\ notCopiedYet({f.name : f \in made})
            /\ fsFiles' = fsFiles \cup left
            /\ fileOps' = fileOps \cup historyOps(made, left)
            /\ UNCHANGED <<spawned, clock, appVars, namesVars, skipVars, probeVars, walkVars, extVarsNotFiles>>

FilesInit ==
    /\ fsFiles \in {{appPath}, {appPath, psHistoryPath}}
    /\ fileOps = {}
    /\ spawned = {}
    /\ clock = 0

InitFiles ==
    /\ AppInit
    /\ NamesIdle
    /\ SkipIdle
    /\ ProbesIdle
    /\ WalkIdle
    /\ FilesInit
    /\ ExtIdleNotFiles

NextFiles ==
    \/ GetCommandHistoryA
    \/ GetCommandHistoryB
    \/ RegisterSelfDestruct
    \/ SelfDestructScript
    \/ DetectMinecraftCheatsFilesA
    \/ DetectMinecraftCheatsFilesB

SpecFiles == InitFiles /\ [][NextFiles]_vars

----------------------------------------------------------------------------
(* openBrowserHistory: the attempts of one invocation (SpecOpen) *)

BrowserNames == {"Google Chrome", "Mozilla Firefox", "Opera GX"}

\* The generic commands that variant B falls back to on win32, by the browser
\* name they report.
genericCommands == <<"Microsoft Edge", "Google Chrome">>

\* What detectBrowsers can return: browsers of different names, in detection
\* order, at most one of them flagged default (0: none).
DetectedBrowsers ==
    {b \in [list : UNION {[1..n -> BrowserNames] : n \in 0..Cardinality(BrowserNames)},
            default : 0..Cardinality(BrowserNames)] :
        /\ \A i, j \in 1..Len(b.list) : i # j => b.list[i] # b.list[j]
        /\ b.default <= Len(b.list)}

\* An attempt to open the history page of one browser and how it ended.
Attempt(browser, failing) == [browser |-> browser, success |-> browser \notin failing]

\* openBrowserHistory (variant A), the loop over the other browsers from the
\* k-th on.
RECURSIVE otherBrowsersA(_, _, _, _, _)
otherBrowsersA(browsers, k, defaultBrowser, failing, details) ==
    IF k > Len(browsers) THEN details
    ELSE IF browsers[k] # defaultBrowser
         THEN LET specificResult == Attempt(browsers[k], failing)
              IN  IF specificResult.success
                  THEN Append(details, specificResult)
                  ELSE otherBrowsersA(browsers, k + 1, defaultBrowser, failing,
                                      Append(details, specificResult))
         ELSE otherBrowsersA(browsers, k + 1, defaultBrowser, failing, details)

\* openBrowserHistory (variant A): openSpecificBrowserHistory catches every
\* error and reports it as success: false.
openBrowserHistoryA(b, failing) ==
    IF Len(b.list) = 0
    THEN [success |-> FALSE, thrown |-> FALSE, details |-> <<>>]
    ELSE LET defaultBrowser == IF b.default > 0 THEN b.list[b.default] ELSE b.list[1]
             defaultResult == Attempt(defaultBrowser, failing)
             details == IF defaultResult.success THEN <<defaultResult>>
                        ELSE otherBrowsersA(b.list, 1, defaultBrowser, failing,
                                            <<defaultResult>>)
         IN  [success |-> \E k \in 1..Len(details) : details[k].success,
              thrown |-> FALSE, details |-> details]

\* The attempts of a list of browsers or commands in order, up to and including
\* the first that succeeds.
RECURSIVE untilOpened(_, _, _)
untilOpened(names, k, failing) ==
    IF k > Len(names) THEN <<>>
    ELSE IF names[k] \notin failing
         THEN <<Attempt(names[k], failing)>>
         ELSE <<Attempt(names[k], failing)>> \o untilOpened(names, k + 1, failing)

\* openBrowserHistory (variant B) on win32: the default browser, then every
\* detected browser, then the generic commands; an error when nothing opened.
openBrowserHistoryB(b, failing, genericFailing) ==
    LET first == IF b.default > 0 THEN <<Attempt(b.list[b.default], failing)>> ELSE <<>>
        opened(attempts) == \E k \in 1..Len(attempts) : attempts[k].success
        loop == IF opened(first) THEN first
                ELSE first \o untilOpened(b.list, 1, failing)
        details == IF opened(loop) THEN loop
                   ELSE loop \o untilOpened(genericCommands, 1, genericFailing)
    IN  [success |-> opened(details), thrown |-> ~opened(details), details |-> details]

OpenInit ==
    /\ detected \in DetectedBrowsers
    /\ broken \in SUBSET BrowserNames
    /\ brokenGeneric \in SUBSET {genericCommands[k] : k \in 1..Len(genericCommands)}
    /\ opening = Empty

\* Variant A's detectBrowsers flags the first browser when none is the default.
OpenBrowserHistoryA ==
    /\ "A" \notin DOMAIN opening
    /\ Len(detected.list) > 0 => detected.default > 0
    /\ opening' = ("A" :> openBrowserHistoryA(detected, broken)) @@ opening
    /\ UNCHANGED <<detected, broken, brokenGeneric, appVars, namesVars, skipVars, probeVars, walkVars, extVarsNotOpen>>

OpenBrowserHistoryB ==
    /\ "B" \notin DOMAIN opening
    /\ opening' = ("B" :> openBrowserHistoryB(detected, broken, brokenGeneric)) @@ opening
    /\ UNCHANGED <<detected, broken, brokenGeneric, appVars, namesVars, skipVars, probeVars, walkVars, extVarsNotOpen>>

InitOpen ==
    /\ AppInit
    /\ NamesIdle
    /\ SkipIdle
    /\ ProbesIdle
    /\ WalkIdle
    /\ OpenInit
    /\ ExtIdleNotOpen

NextOpen ==
    \/ OpenBrowserHistoryA
    \/ OpenBrowserHistoryB

SpecOpen == InitOpen /\ [][NextOpen]_vars

----------------------------------------------------------------------------
(* Two browser-history inspections that overlap (SpecOverlap) *)

\* The two invocations of detectMinecraftCheats that are in progress.
OverlapRuns == {1, 2}

RunVariants == {"A", "B"}

\* The temporary path an inspection copies the Chrome history to: variant A
\* names it after Date.now(), variant B uses a fixed name.
runTempPath(v, ms) ==
    IF v = "A" THEN tempHistoryPathA(ms) ELSE tempHistoryPathB("Chrome")

NoPath == [name |-> "none", stamp |-> 0]

IdleRun == [pc |-> "idle", path |-> NoPath, stdout |-> "empty", sites |-> <<>>]

\* What the query command prints for an inspection: the outcome on the copy,
\* or a failure when the copy is not there.
queryOn(files, path, historyFile) ==
    IF path \in files THEN historyFile.query ELSE "fails"

\* The sites an inspection pushes for the command's outcome; both variants push
\* nothing when the command failed (A leaves the loop body, B reads '[]').
sitesFor(historyFile, stdout) ==
    sitesOf([historyFile EXCEPT !.query = stdout])

\* The temporary directory after the continuation of the awaited command:
\* variant A skips the unlink when the command failed; an unlink of a missing
\* file throws, and both variants catch that.
afterUnlink(v, files, path, stdout) ==
    IF v = "A" /\ stdout = "fails" THEN files ELSE files \ {path}

\* fs.copyFileSync to the temporary path, then the command is started and
\* awaited.
StartInspection ==
    \E i \in OverlapRuns :
        /\ runs[i].pc = "idle"
        /\ LET tempHistoryPath == runTempPath(runVariant, millis)
           IN  /\ tempDir' = tempDir \cup {tempHistoryPath}
               /\ runs' = [runs EXCEPT ![i] = [@ EXCEPT !.pc = "querying",
                                                         !.path = tempHistoryPath]]
        /\ UNCHANGED <<chromeHistory, runVariant, millis, appVars, namesVars, skipVars, probeVars, walkVars, extVarsNotOverlap>>

\* The PowerShell command of an inspection opens the copy and prints its rows.
QueryCommand ==
    \E i \in OverlapRuns :
        /\ runs[i].pc = "querying"
        /\ runs' = [runs EXCEPT ![i] = [@ EXCEPT !.pc = "queried",
                                                  !.stdout = queryOn(tempDir, runs[i].path, chromeHistory)]]
        /\ UNCHANGED <<tempDir, chromeHistory, runVariant, millis, appVars, namesVars, skipVars, probeVars, walkVars, extVarsNotOverlap>>

\* The continuation after the await: parse, push the sites, delete the copy.
FinishInspection ==
    \E i \in OverlapRuns :
        /\ runs[i].pc = "queried"
        /\ tempDir' = afterUnlink(runVariant, tempDir, runs[i].path, runs[i].stdout)
        /\ runs' = [runs EXCEPT ![i] = [@ EXCEPT !.pc = "done",
                                                  !.sites = sitesFor(chromeHistory, runs[i].stdout)]]
        /\ UNCHANGED <<chromeHistory, runVariant, millis, appVars, namesVars, skipVars, probeVars, walkVars, extVarsNotOverlap>>

\* A millisecond passes.
Tick ==
    /\ millis < MaxClock
    /\ millis' = millis + 1
    /\ UNCHANGED <<runs, tempDir, chromeHistory, runVariant, appVars, namesVars, skipVars, probeVars, walkVars, extVarsNotOverlap>>

OverlapInit ==
    /\ runs = [i \in OverlapRuns |-> IdleRun]
    /\ tempDir = {}
    /\ chromeHistory \in {h \in HistoryFiles : h.browser = "Chrome" /\ ~h.unlinkRefused}
    /\ runVariant \in RunVariants
    /\ millis = 0

InitOverlap ==
    /\ AppInit
    /\ NamesIdle
    /\ SkipIdle
    /\ ProbesIdle
    /\ WalkIdle
    /\ OverlapInit
    /\ ExtIdleNotOverlap

NextOverlap ==
    \/ StartInspection
    \/ QueryCommand
    \/ FinishInspection
    \/ Tick

SpecOverlap == InitOverlap /\ [][NextOverlap]_vars

----------------------------------------------------------------------------
(* detectStoppedServices on win32 (SpecServices) *)

\* The most services that Get-Service lists.
MaxServices == 2

\* Variant A's watch-list: the name fields of monitorServices.
monitorServices ==
    {<<"G", "a", "m", "e", "I", "n", "p", "u", "t">>,
     <<"A", "u", "d", "i", "o", "s", "r", "v">>,
     <<"S", "c", "h", "e", "d", "u", "l", "e">>,
     <<"w", "i", "n", "m", "g", "m", "t">>,
     <<"E", "v", "e", "n", "t", "L", "o", "g">>,
     <<"P", "c", "a", "S", "v", "c">>,
     <<"A", "p", "p", "I", "n", "f", "o">>,
     <<"D", "i", "a", "g", "T", "r", "a", "c", "k">>,
     <<"D", "P", "S">>,
     <<"S", "e", "n", "s", "e">>,
     <<"W", "d", "F", "i", "l", "t", "e", "r">>,
     <<"W", "d", "N", "i", "s", "S", "v", "c">>,
     <<"W", "i", "n", "D", "e", "f", "e", "n", "d">>,
     <<"S", "e", "c", "u", "r", "i", "t", "y", "H", "e", "a", "l", "t", "h", "S", "e", "r", "v", "i", "c", "e">>,
     <<"W", "e", "r", "S", "v", "c">>}

\* Variant B's watch-list.
minecraftRelatedServices ==
    {<<"J", "a", "v", "a">>,
     <<"J", "a", "v", "a", "Q", "u", "i", "c", "k", "S", "t", "a", "r", "t", "e", "r", "S", "e", "r", "v", "i", "c", "e">>,
     <<"J", "a", "v", "S", "e", "r", "v", "i", "c", "e">>,
     <<"H", "a", "m", "a", "c", "h", "i">>,
     <<"H", "a", "m", "a", "c", "h", "i", "2">>,
     <<"L", "o", "g", "M", "e", "I", "n", "H", "a", "m", "a", "c", "h", "i">>,
     <<"v", "b", "o", "x", "s", "e", "r", "v", "i", "c", "e">>,
     <<"V", "i", "r", "t", "u", "a", "l", "B", "o", "x">>,
     <<"v", "m", "w", "a", "r", "e">>,
     <<"V", "M", "T", "o", "o", "l", "s">>,
     <<"V", "M", "w", "a", "r", "e", "H", "o", "s", "t", "d">>,
     <<"D", "o", "c", "k", "e", "r">>,
     <<"c", "o", "m", ".", "d", "o", "c", "k", "e", "r">>,
     <<"A", "d", "o", "b", "e", "A", "R", "M", "s", "e", "r", "v", "i", "c", "e">>,
     <<"T", "e", "a", "m", "V", "i", "e", "w", "e", "r">>,
     <<"D", "i", "s", "c", "o", "r", "d">>,
     <<"F", "i", "r", "e", "w", "a", "l", "l">>}

\* A service as Get-Service reports it.
Service(name, displayName, status, startType) ==
    [Name |-> name, DisplayName |-> displayName, Status |-> status, StartType |-> startType]

ServiceNames ==
    {<<<<"W", "i", "n", "D", "e", "f", "e", "n", "d">>, <<"W", "i", "n", "d", "o", "w", "s", " ", "D", "e", "f", "e", "n", "d", "e", "r">>>>,
     <<<<"w", "i", "n", "d", "e", "f", "e", "n", "d">>, <<"W", "i", "n", "d", "o", "w", "s", " ", "D", "e", "f", "e", "n", "d", "e", "r">>>>,
     <<<<"T", "e", "a", "m", "V", "i", "e", "w", "e", "r">>, <<"T", "e", "a", "m", "V", "i", "e", "w", "e", "r", " ", "1", "5">>>>,
     <<<<"U", "p", "d", "a", "t", "e", "r">>, <<"D", "i", "s", "c", "o", "r", "d", " ", "U", "p", "d", "a", "t", "e", "r">>>>,
     <<<<"S", "p", "o", "o", "l", "e", "r">>, <<"P", "r", "i", "n", "t", " ", "S", "p", "o", "o", "l", "e", "r">>>>}

Services ==
    {Service(n[1], n[2], status, startType) :
        n \in ServiceNames, status \in {"Stopped", "Running"},
        startType \in {"Automatic", "Disabled"}}

\* The Start values that the registry query over *Defender* services prints.
DefenderStarts == {<<>>, <<"2">>, <<"4">>, <<"2", "4">>}

\* monitorServices.find(s => s.name.toLowerCase() === name.toLowerCase())
isMonitored(name) ==
    \E s \in monitorServices : toLowerCase(s) = toLowerCase(name)

\* The loop over minecraftRelatedServices: the name or the display name
\* contains an entry, ignoring case.
isRelated(service) ==
    \E relatedService \in minecraftRelatedServices :
        \/ includes(toLowerCase(service.Name), toLowerCase(relatedService))
        \/ includes(toLowerCase(service.DisplayName), toLowerCase(relatedService))

\* detectStoppedServices (variant A) on win32: an object of three lists.
detectStoppedServicesA(services, starts) ==
    [isList |-> FALSE,
     stoppedServices |->
         SelectSeq(services, LAMBDA s : isMonitored(s.Name) /\ s.Status = "Stopped"),
     disabledServices |->
         SelectSeq(services, LAMBDA s : isMonitored(s.Name) /\ s.StartType = "Disabled"),
     modifiedServices |-> SelectSeq(starts, LAMBDA startValue : startValue = "4")]

\* detectStoppedServices (variant B) on win32: Get-Service filtered on the
\* status Stopped, then the services that are related.
detectStoppedServicesB(services) ==
    [isList |-> TRUE,
     items |-> SelectSeq(SelectSeq(services, LAMBDA s : s.Status = "Stopped"), isRelated)]

ServicesInit ==
    /\ osServices \in UNION {[1..n -> Services] : n \in 0..MaxServices}
    /\ defenderStarts \in DefenderStarts
    /\ stoppedReply = Empty

DetectStoppedServicesA ==
    /\ "A" \notin DOMAIN stoppedReply
    /\ stoppedReply' = ("A" :> detectStoppedServicesA(osServices, defenderStarts)) @@ stoppedReply
    /\ UNCHANGED <<osServices, defenderStarts, appVars, namesVars, skipVars, probeVars, walkVars, extVarsNotServices>>

DetectStoppedServicesB ==
    /\ "B" \notin DOMAIN stoppedReply
    /\ stoppedReply' = ("B" :> detectStoppedServicesB(osServices)) @@ stoppedReply
    /\ UNCHANGED <<osServices, defenderStarts, appVars, namesVars, skipVars, probeVars, walkVars, extVarsNotServices>>

InitServices ==
    /\ AppInit
    /\ NamesIdle
    /\ SkipIdle
    /\ ProbesIdle
    /\ WalkIdle
    /\ ServicesInit
    /\ ExtIdleNotServices

NextServices ==
    \/ DetectStoppedServicesA
    \/ DetectStoppedServicesB

SpecServices == InitServices /\ [][NextServices]_vars

----------------------------------------------------------------------------
(* The 'open location' links (SpecLinks) *)

\* The path of a link and the machine it is opened on: whether the path exists,
\* whether it is a file, and whether the open command (explorer, open, xdg-open)
\* or shell.openPath succeeds.
Locations ==
    [variant : {"A", "B"}, platform : Platforms,
     exists : BOOLEAN, isFile : BOOLEAN, opens : BOOLEAN]

\* openFileLocation (variant A): a missing path and a failing explorer.exe
\* throw; shell.openPath resolves with an error text and is not inspected.
openFileLocationA(loc) ==
    IF ~loc.exists THEN Throws([message |-> "La ruta no existe"])
    ELSE IF loc.isFile /\ loc.platform = "win32" /\ ~loc.opens
    THEN Throws([message |-> "Command failed"])
    ELSE Returns(ResultValue([success |-> TRUE]))

\* openFileLocation (variant B): every failure is returned as {error: ...}.
openFileLocationB(loc) ==
    IF ~loc.exists THEN Returns(ErrorValue("El archivo no existe"))
    ELSE IF ~loc.opens THEN Returns(ErrorValue("Command failed"))
    ELSE Returns(ResultValue([success |-> TRUE]))

\* The link's click listener after the awaited invoke settled.
linkTextAfter(settled) ==
    IF settled.state = "fulfilled" THEN "Abierto" ELSE "Error"

NoReply == Fulfilled(ResultValue(NoData))

LinksInit ==
    /\ location \in Locations
    /\ linkCall = [pc |-> "idle", reply |-> NoReply]
    /\ linkText = "Abrir ubicacion"

\* A click on the link: the listener invokes 'open-file-location'.
ClickLocationLink ==
    /\ linkCall.pc = "idle"
    /\ linkCall' = [linkCall EXCEPT !.pc = "invoked"]
    /\ UNCHANGED <<location, linkText, appVars, namesVars, skipVars, probeVars, walkVars, extVarsNotLinks>>

\* The 'open-file-location' handler runs openFileLocation and settles.
OpenFileLocationA ==
    /\ linkCall.pc = "invoked"
    /\ location.variant = "A"
    /\ linkCall' = [pc |-> "replied", reply |-> IpcHandler(openFileLocationA(location))]
    /\ UNCHANGED <<location, linkText, appVars, namesVars, skipVars, probeVars, walkVars, extVarsNotLinks>>

OpenFileLocationB ==
    /\ linkCall.pc = "invoked"
    /\ location.variant = "B"
    /\ linkCall' = [pc |-> "replied", reply |-> IpcHandler(openFileLocationB(location))]
    /\ UNCHANGED <<location, linkText, appVars, namesVars, skipVars, probeVars, walkVars, extVarsNotLinks>>

\* The listener's continuation sets the link's text.
LinkContinuation ==
    /\ linkCall.pc = "replied"
    /\ linkCall' = [linkCall EXCEPT !.pc = "shown"]
    /\ linkText' = linkTextAfter(linkCall.reply)
    /\ UNCHANGED <<location, appVars, namesVars, skipVars, probeVars, walkVars, extVarsNotLinks>>

\* setTimeout(..., 2000): the link's text is put back.
LinkTimeout ==
    /\ linkCall.pc = "shown"
    /\ linkCall' = [linkCall EXCEPT !.pc = "reset"]
    /\ linkText' = "Abrir ubicacion"
    /\ UNCHANGED <<location, appVars, namesVars, skipVars, probeVars, walkVars, extVarsNotLinks>>

InitLinks ==
    /\ AppInit
    /\ NamesIdle
    /\ SkipIdle
    /\ ProbesIdle
    /\ WalkIdle
    /\ LinksInit
    /\ ExtIdleNotLinks

NextLinks ==
    \/ ClickLocationLink
    \/ OpenFileLocationA
    \/ OpenFileLocationB
    \/ LinkContinuation
    \/ LinkTimeout

SpecLinks == InitLinks /\ [][NextLinks]_vars

----------------------------------------------------------------------------
(* detectBrowsers on win32 (SpecDetect) *)

\* The first entries of variant A's browserPaths: the executables looked for.
browserPathsA ==
    <<[name |-> "Google Chrome", path |-> "Program Files (x86)/chrome.exe"],
      [name |-> "Google Chrome", path |-> "Program Files/chrome.exe"],
      [name |-> "Mozilla Firefox", path |-> "Program Files/firefox.exe"]>>

\* The first entries of variant B's browserPaths: the profile folders looked for.
browserPathsB ==
    <<[name |-> "Google Chrome", path |-> "AppData/Local/Google/Chrome"],
      [name |-> "Mozilla Firefox", path |-> "AppData/Roaming/Mozilla/Firefox"]>>

BrowserPlaces ==
    {browserPathsA[k].path : k \in 1..Len(browserPathsA)}
        \cup {browserPathsB[k].path : k \in 1..Len(browserPathsB)}

\* The name of the operating system's default browser as the variants decode
\* it; "Desconocido" when it cannot be told.
DefaultNames == {"Google Chrome", "Mozilla Firefox", "Microsoft Edge", "Desconocido"}

\* for (const browser of browserPaths) if (fs.existsSync(browser.path)) push
RECURSIVE pushInstalled(_, _, _)
pushInstalled(browserPaths, existing, defaultName) ==
    IF browserPaths = <<>> THEN <<>>
    ELSE LET browser == Head(browserPaths)
         IN  (IF browser.path \in existing
              THEN <<[name |-> browser.name, default |-> defaultName = browser.name]>>
              ELSE <<>>)
                 \o pushInstalled(Tail(browserPaths), existing, defaultName)

\* if (browsers.length > 0 && !browsers.some(b => b.default)) browsers[0].default = true
markFirst(browsers) ==
    IF Len(browsers) > 0 /\ ~\E k \in 1..Len(browsers) : browsers[k].default
    THEN [browsers EXCEPT ![1].default = TRUE]
    ELSE browsers

\* detectBrowsers (variant A): default is set while pushing, then the first
\* browser is marked when none is.
detectBrowsersA(existing, defaultName) ==
    markFirst(pushInstalled(browserPathsA, existing, defaultName))

\* detectBrowsers (variant B): every browser is pushed with default: false,
\* then those of the default's name are marked.
detectBrowsersB(existing, defaultName) ==
    LET browsers == pushInstalled(browserPathsB, existing, "none")
    IN  [k \in 1..Len(browsers) |->
            [browsers[k] EXCEPT !.default = (browsers[k].name = defaultName)]]

DetectInit ==
    /\ installedPaths \in SUBSET BrowserPlaces
    /\ osDefault \in DefaultNames
    /\ detectedList = Empty

DetectBrowsersA ==
    /\ "A" \notin DOMAIN detectedList
    /\ detectedList' = ("A" :> detectBrowsersA(installedPaths, osDefault)) @@ detectedList
    /\ UNCHANGED <<installedPaths, osDefault, appVars, namesVars, skipVars, probeVars, walkVars, extVarsNotDetect>>

DetectBrowsersB ==
    /\ "B" \notin DOMAIN detectedList
    /\ detectedList' = ("B" :> detectBrowsersB(installedPaths, osDefault)) @@ detectedList
    /\ UNCHANGED <<installedPaths, osDefault, appVars, namesVars, skipVars, probeVars, walkVars, extVarsNotDetect>>

InitDetect ==
    /\ AppInit
    /\ NamesIdle
    /\ SkipIdle
    /\ ProbesIdle
    /\ WalkIdle
    /\ DetectInit
    /\ ExtIdleNotDetect

NextDetect ==
    \/ DetectBrowsersA
    \/ DetectBrowsersB

SpecDetect == InitDetect /\ [][NextDetect]_vars

----------------------------------------------------------------------------
(* The click handler of a list probe and its continuation, on every shape of *)
(* reply (SpecPanel): renderer.js:138-178, 181-240, 580-618, 621-661, 722-760 *)

\* The probes whose panel lists the elements of the reply.
ListProbes ==
    {"jarFiles", "extensionChanges", "deletedFiles", "executedJars",
     "stoppedServices", "folderHistory", "executionHistory", "commandHistory"}

\* A settled invoke: rejected, or fulfilled with undefined, with an array of some
\* length, or with an object that is no array (with or without an error field).
Reply(state, kind, hasError, length) ==
    [state |-> state, kind |-> kind, hasError |-> hasError, length |-> length]

NotSettled == Reply("pending", "undefined", FALSE, 0)

Replies ==
    {Reply("rejected", "undefined", FALSE, 0), Reply("fulfilled", "undefined", FALSE, 0)}
    \cup {Reply("fulfilled", "array", FALSE, n) : n \in 0..MaxFound}
    \cup {Reply("fulfilled", "object", e, 0) : e \in BOOLEAN}

\* What makes the try block throw: the awaited invoke rejects; '.error' is read
\* of undefined; '.forEach' of an object that is no array is not a function.
thrownInTry(reply) ==
    \/ reply.state = "rejected"
    \/ reply.kind = "undefined"
    \/ reply.kind = "object" /\ ~reply.hasError

\* The panel after the continuation: the catch block's showError when the try
\* block threw; else the error box, the info message or the result list.
continuationUncaught(view, reply) ==
    IF thrownInTry(reply) THEN view
    ELSE IF reply.hasError THEN "error"
    ELSE IF reply.length = 0 THEN "info"
    ELSE "list"

continuation(view, reply) ==
    IF thrownInTry(reply) THEN "error"
    ELSE IF reply.hasError THEN "error"
    ELSE IF reply.length = 0 THEN "info"
    ELSE "list"

PanelInit ==
    /\ views = [k \in ListProbes |-> "placeholder"]
    /\ unsettled = EmptyBag
    /\ presses = 0
    /\ replies = [k \in ListProbes |-> NotSettled]

\* A click: showLoading(panel), then the probe is invoked.
ClickListProbe ==
    \E key \in ListProbes :
        /\ presses < MaxClicks
        /\ presses' = presses + 1
        /\ views' = [views EXCEPT ![key] = "loading"]
        /\ unsettled' = unsettled (+) SetToBag({key})
        /\ UNCHANGED replies
        /\ UNCHANGED <<appVars, namesVars, skipVars, probeVars, walkVars, extVarsNotPanel>>

\* An invocation settles and the handler's continuation runs.
SettleListProbe ==
    \E key \in BagToSet(unsettled), reply \in Replies :
        /\ unsettled' = unsettled (-) SetToBag({key})
        /\ views' = [views EXCEPT ![key] = continuation(views[key], reply)]
        /\ replies' = [replies EXCEPT ![key] = reply]
        /\ UNCHANGED presses
        /\ UNCHANGED <<appVars, namesVars, skipVars, probeVars, walkVars, extVarsNotPanel>>

InitPanel ==
    /\ AppInit
    /\ NamesIdle
    /\ SkipIdle
    /\ ProbesIdle
    /\ WalkIdle
    /\ ExtIdleNotPanel
    /\ PanelInit

NextPanel ==
    \/ ClickListProbe
    \/ SettleListProbe

SpecPanel == InitPanel /\ [][NextPanel]_vars

----------------------------------------------------------------------------
(* C1 *)

\* C1: on every registered channel the handler's promise is fulfilled, never
\* rejected; on a systemUtils channel it is fulfilled with {error: message} when
\* the awaited function threw, and with the function's result unchanged otherwise.
C1_HandlerAlwaysResolves ==
    handled.channel # "none" =>
        /\ handled.settled.state = "fulfilled"
        /\ handled.channel \in SystemChannels =>
              IF handled.outcome.throws
              THEN handled.settled.value =
                       [error |-> handled.outcome.error.message, data |-> NoData]
              ELSE handled.settled.value = handled.outcome.value

\* A handler whose awaited function threw.
C1_Witness ==
    /\ handled.channel = "get-deleted-files"
    /\ handled.outcome.throws
    /\ handled.settled.value.error = "ENOENT"

----------------------------------------------------------------------------
(* C2 *)

\* C2: the accumulator holds, for each probe key, exactly the value of the most
\* recently completed invocation of that probe and no key for a probe that never
\* completed; the results sent by the export button are that same mapping as it
\* was when the button was clicked; building the export leaves the accumulator
\* unchanged.
C2_ExportIsLastCompleted ==
    /\ [](/\ globalResults = lastCompleted
          /\ exported.built => exported.results = exportedFrom)
    /\ [][ExportClick => globalResults' = globalResults]_vars

\* An export sent after both invocations of one click on the default deleted-files
\* button completed, the later one with an error reply, while eleven probes never
\* completed.
C2_Witness ==
    /\ exported.built
    /\ DOMAIN exported.results = {"deletedFiles"}
    /\ exported.results["deletedFiles"].error = "EACCES"
    /\ \A r \in BagToSet(sent) : r.key # "deletedFiles"

----------------------------------------------------------------------------
(* C3 *)

\* C3: with the home directory variable set, a multi-source probe returns and
\* does not throw, and every well-formed entry that one of its sources yielded
\* is represented in the returned list (by an entry with the same dedupe key),
\* whatever the other sources did.
C3_PartialResultsKept ==
    (returned.settled /\ env.USERPROFILE) =>
        /\ ~returned.throws
        /\ \A s \in DOMAIN sources :
              \A i \in 1..Len(collect(sources[s])) :
                  LET entry == collect(sources[s])[i]
                      kept  == \E k \in 1..Len(returned.value) :
                                   toLowerCase(returned.value[k].name) = toLowerCase(entry.name)
                  IN  (/\ entry.name # undefined
                       /\ (s = "execHistory" => endsWith(toLowerCase(entry.name), <<".", "j", "a", "r">>)))
                      => kept

----------------------------------------------------------------------------
(* C4 *)

\* C4: when every source of getRecentlyDeletedFiles fails, the home directory
\* variable being set or not, the call returns the empty list and does not throw.
C4_EmptyListOnTotalFailure ==
    (/\ call.fn = "getRecentlyDeletedFiles"
     /\ returned.settled
     /\ \A s \in DOMAIN sources : ~sources[s].ok)
    => (~returned.throws /\ returned.value = <<>>)

----------------------------------------------------------------------------
(* C5 *)

\* C5: the JAR scanner of either variant returns every file of the drive whose
\* name ends in .jar and none of whose ancestor directories is skipped by the
\* variant's shouldSkipDirectory exactly once, and returns no other file.
C5_ExactlyTheJarsOutsideSkippedTrees ==
    \A v \in {"A", "B"} :
        LET key == IF v = "A" THEN "findAllJarFilesA" ELSE "findAllJarFilesB"
            skipped(f) == \E k \in 1..(Len(f.path) - 1) :
                              IF v = "A"
                              THEN shouldSkipDirectoryA(f.path[k])
                              ELSE shouldSkipDirectoryB(f.path[k])
        IN  key \in DOMAIN scanned =>
                \A f \in fsTree :
                    Cardinality({i \in 1..Len(scanned[key]) :
                                    scanned[key][i].path = fullPath(f.path)})
                      = IF endsWith(f.path[Len(f.path)], <<".", "j", "a", "r">>) /\ ~skipped(f)
                        THEN 1 ELSE 0

----------------------------------------------------------------------------
(* C6 *)

\* C6: of the files below the user's Downloads, Desktop and Documents, the
\* extension-change scanner of either variant reports once each those that were
\* modified recently, carry a double extension <e1>.<e2> (e1 of jar, exe, dll,
\* bat, vbs; e2 of txt, png, jpg, jpeg) and have no skipped ancestor directory,
\* and reports no other: foo.jar is not reported and no file is reported twice.
C6_ReportsExactlyDoubleExtensions ==
    \A v \in {"A", "B"} :
        LET key == IF v = "A" THEN "checkFileExtensionChangesA"
                   ELSE "checkFileExtensionChangesB"
            skipped(f) == \E k \in 1..(Len(f.path) - 1) :
                              IF v = "A"
                              THEN shouldSkipDirectoryA(f.path[k])
                              ELSE shouldSkipDirectoryB(f.path[k])
            recent(f) == f.age < (IF v = "A" THEN RecentDaysA ELSE RecentDaysB)
            doubleExtension(f) ==
                \E e1 \in HiddenExtensions, e2 \in CoverExtensions :
                    endsWith(toLowerCase(f.path[Len(f.path)]),
                             <<".">> \o e1 \o <<".">> \o e2)
        IN  key \in DOMAIN scanned =>
                \A f \in fsTree :
                    (\E k \in 1..3 : isUnder(f.path, commonLocations[k])) =>
                        Cardinality({i \in 1..Len(scanned[key]) :
                                        scanned[key][i].path = fullPath(f.path)})
                          = IF recent(f) /\ doubleExtension(f) /\ ~skipped(f)
                            THEN 1 ELSE 0

----------------------------------------------------------------------------
(* C7 *)

\* C7: for a file name <base>.<e1>.<e2> with a non-empty base, e1 one of jar, exe,
\* dll, bat, vbs and e2 one of txt, png, jpg, jpeg, getOriginalNameGuess returns
\* <base>.<e1>, the name without its last extension, in both variants.
C7_GuessStripsCoverExtension ==
    LET parts == split(givenName, ".")
        n     == Len(parts)
    IN  \A v \in DOMAIN guess :
            (/\ n >= 3
             /\ parts[n] \in CoverExtensions
             /\ parts[n - 1] \in HiddenExtensions
             /\ Len(givenName) > Len(parts[n]) + Len(parts[n - 1]) + 2)
            => guess[v] = SubSeq(givenName, 1, Len(givenName) - Len(parts[n]) - 1)

----------------------------------------------------------------------------
(* C8 *)

\* C8 as stated: shouldSkipDirectory(p) is true exactly when some component of p
\* is a skip-list givenPath name (variant A compares ignoring letter case).
C8_SkipIffComponentListed ==
    LET comps == split(replaceAll(givenPath, "\\", "/"), "/")
        listedA == \E i \in 1..Len(comps), k \in 1..Len(skipDirsA) :
                       toLowerCase(comps[i]) = toLowerCase(skipDirsA[k])
        listedB == \E i \in 1..Len(comps), k \in 1..Len(skipDirsB) :
                       comps[i] = skipDirsB[k]
    IN  /\ "A" \in DOMAIN skip => (skip["A"] <=> listedA)
        /\ "B" \in DOMAIN skip => (skip["B"] <=> listedB)

\* C8, amended: shouldSkipDirectory(p) is true when some component of p is a
\* skip-list givenPath name, and false when no component of p contains a
\* skip-list name as a substring (variant A compares ignoring letter case,
\* variant B exactly).
C8_SkipByContainedName ==
    LET comps == split(replaceAll(givenPath, "\\", "/"), "/")
        listedA == \E i \in 1..Len(comps), k \in 1..Len(skipDirsA) :
                       toLowerCase(comps[i]) = toLowerCase(skipDirsA[k])
        listedB == \E i \in 1..Len(comps), k \in 1..Len(skipDirsB) :
                       comps[i] = skipDirsB[k]
        containsA == \E i \in 1..Len(comps), k \in 1..Len(skipDirsA) :
                         includes(toLowerCase(comps[i]), toLowerCase(skipDirsA[k]))
        containsB == \E i \in 1..Len(comps), k \in 1..Len(skipDirsB) :
                         includes(comps[i], skipDirsB[k])
    IN  /\ "A" \in DOMAIN skip =>
              /\ listedA => skip["A"]
              /\ ~containsA => ~skip["A"]
        /\ "B" \in DOMAIN skip =>
              /\ listedB => skip["B"]
              /\ ~containsB => ~skip["B"]

\* Both variants have decided C:\Users\WindowsApps: no component is on a skip
\* list, one contains the listed name Windows, and both variants skip the path.
C8_Witness ==
    /\ givenPath = <<"C", ":", "\\", "U", "s", "e", "r", "s", "\\", "W", "i", "n", "d", "o", "w", "s", "A", "p", "p", "s">>
    /\ DOMAIN skip = {"A", "B"}
    /\ skip["A"]
    /\ skip["B"]

----------------------------------------------------------------------------
(* C9 *)

\* C9: the list returned by getRecentlyExecutedJars has no two entries whose
\* paths are equal when letter case is ignored.
C9_NoTwoPathsEqualIgnoringCase ==
    (/\ call.fn = "getRecentlyExecutedJars"
     /\ returned.settled
     /\ ~returned.throws)
    => \A i, j \in 1..Len(returned.value) :
           i < j => toLowerCase(returned.value[i].path) # toLowerCase(returned.value[j].path)

----------------------------------------------------------------------------
(* C10 *)

\* C10: in the list returned by getRecentlyDeletedFiles no entry stands before an
\* entry with a later deletedTime, and the entries of one deletedTime stand in the
\* order in which they were collected.
C10_LatestFirstTiesInCollectionOrder ==
    (/\ call.fn = "getRecentlyDeletedFiles"
     /\ returned.settled
     /\ ~returned.throws)
    => LET result    == returned.value
           collected == IF platform # "win32" THEN collect(sources.trash)
                        ELSE IF call.variant = "A"
                        THEN collect(sources.trash) \o collect(sources.eventLog)
                        ELSE collect(sources.eventLog) \o collect(sources.trash)
       IN  /\ \A i, j \in 1..Len(result) :
                  (i < j /\ result[i].time.valid /\ result[j].time.valid)
                  => result[i].time.ms >= result[j].time.ms
           /\ \A t \in {result[i].time : i \in 1..Len(result)} :
                  SelectSeq(result, LAMBDA x : x.time = t)
                      = SelectSeq(collected, LAMBDA x : x.time = t)

----------------------------------------------------------------------------
(* C11 *)
\* C11: a mod file (.jar) is reported as suspicious by a mod scanner if and
\* only if its lower-cased name contains a suspicious keyword of that scanner
\* and contains no whitelist substring.
C11_FlaggedIffKeywordAndNotWhitelisted ==
    \A fn \in DOMAIN flagged :
        \A i \in 1..Len(modsFolder) :
            LET name == modsFolder[i]
                nameLower == toLowerCase(name)
                keywords == IF fn = "scanMinecraftMods" THEN scanKeywords
                            ELSE modFolderKeywords
            IN  endsWith(name, dotJar) =>
                    ((\E e \in 1..Len(flagged[fn]) :
                          /\ flagged[fn][e].name = name
                          /\ flagged[fn][e].suspicious)
                     <=> (/\ \E k \in keywords : includes(nameLower, k)
                          /\ \A w \in whitelistedMods : ~includes(nameLower, w)))

----------------------------------------------------------------------------
(* C12 *)
\* C12: the list returned by findAllJarFiles, in either variant, is ordered by
\* lastModified from the most recent to the oldest.
C12_JarsLatestFirst ==
    \A key \in DOMAIN scanned \cap {"findAllJarFilesA", "findAllJarFilesB"} :
        \A i, j \in 1..Len(scanned[key]) :
            i < j => scanned[key][i].time.ms >= scanned[key][j].time.ms

----------------------------------------------------------------------------
(* C13 *)
\* C13: every recursive walk (searchJarFilesRecursively and
\* findRecentlyModifiedFiles of either variant) returns on every directory
\* structure, cycles through links included, and never lists a directory
\* deeper below its search root than its depth cap.
C13_WalkReturnsWithinDepthCap ==
    /\ [](walker \in Walkers => deepestRead <= depthLimit(walker))
    /\ <>(walker \in Walkers => walkStatus = "returned")

\* A walk over a cycle of links has returned, having listed a directory at
\* the depth of its cap.
C13_Witness ==
    /\ walker = [fn |-> "searchJarFilesRecursively", variant |-> "B"]
    /\ structure.links = "rootToRoot"
    /\ walkStatus = "returned"
    /\ deepestRead = JarDepthLimitB

----------------------------------------------------------------------------
----------------------------------------------------------------------------
(* C15 *)
\* C15: checkScreenRecording, in either variant, never lists in applications
\* the process, service or device that is running when its name contains,
\* ignoring case, an entry of the false-positive exclusion list.
C15_FalsePositivesNeverListed ==
    \A v \in DOMAIN recordingStatus :
        (\E k \in 1..Len(falsePositives) :
             includes(toLowerCase(running.name), toLowerCase(falsePositives[k])))
        => \A i \in 1..Len(recordingStatus[v].applications) :
               ~includes(recordingStatus[v].applications[i], running.name)

----------------------------------------------------------------------------
(* C16 *)
\* C16: when the browser-history inspection of detectMinecraftCheats is over,
\* no temporary copy of a history file is left, whether the query command
\* printed rows, printed nothing, failed, or printed text that does not parse
\* (the operating system not refusing the deletion).
C16_NoTemporaryCopyLeft ==
    \A v \in DOMAIN cheatScan :
        (\A k \in 1..Len(histories) : ~histories[k].unlinkRefused)
            => cheatScan[v].tempFiles = {}

----------------------------------------------------------------------------
(* C17 *)
\* C17: every file that a function of systemUtils has created, written or
\* deleted is a temporary copy of a browser history file; every other file is
\* only read.
C17_OnlyHistoryCopiesTouched ==
    \A o \in fileOps : o.op # "read" => o.name \in historyCopyNames

----------------------------------------------------------------------------
(* C18 *)
\* C18: the attempts of one openBrowserHistory call are the default browser,
\* then the other detected browsers in detection order, cut after the first
\* attempt that succeeds; no browser is attempted twice; the call reports
\* success exactly when one attempt succeeded.
C18_DefaultThenOthersUntilSuccess ==
    \A v \in DOMAIN opening :
        LET attempts == opening[v].details
            others == SelectSeq(detected.list,
                                LAMBDA n : detected.default = 0 \/ n # detected.list[detected.default])
            order == IF detected.default > 0
                     THEN <<detected.list[detected.default]>> \o others ELSE others
        IN  /\ Len(attempts) <= Len(order)
            /\ \A k \in 1..Len(attempts) :
                   /\ attempts[k].browser = order[k]
                   /\ attempts[k].success => k = Len(attempts)
            /\ Len(attempts) < Len(order)
                   => Len(attempts) > 0 /\ attempts[Len(attempts)].success
            /\ \A i, j \in 1..Len(attempts) : i # j => attempts[i].browser # attempts[j].browser
            /\ opening[v].success <=> \E k \in 1..Len(attempts) : attempts[k].success

----------------------------------------------------------------------------
(* C19 *)
\* C19: the list that getCompleteExecutionHistory returns holds no two entries
\* whose names are equal ignoring case, and no collected entry of the same
\* name started later than the entry that is returned.
C19_OneEntryPerNameTheLatest ==
    (call.fn = "getCompleteExecutionHistory" /\ returned.settled /\ ~returned.throws)
        => LET list == returned.value
               collected == UNION {{collect(sources[s])[k] : k \in 1..Len(collect(sources[s]))} :
                                      s \in DOMAIN sources}
           IN  /\ \A i, j \in 1..Len(list) :
                      i # j => toLowerCase(list[i].name) # toLowerCase(list[j].name)
               /\ \A i \in 1..Len(list) : \A e \in collected :
                      toLowerCase(e.name) = toLowerCase(list[i].name)
                          => e.time.ms <= list[i].time.ms

----------------------------------------------------------------------------
(* C20 *)
\* C20: at every moment at most one probe request of the renderer (a click on
\* a probe button, or the browser detection of page load) is waiting for its
\* reply.
C20_AtMostOneProbeAwaitingReply ==
    LET probes == {r \in DOMAIN sent : r.key \in ProbeKeys \cup {"browserInfo"}}
        awaiting(n) == \E r \in probes : sent[r] >= n
    IN  /\ ~awaiting(2)
        /\ \A r1, r2 \in probes : r1 = r2

----------------------------------------------------------------------------
(* C21 *)
\* C21: a click on a probe button, each of the three buttons of a time-window
\* group included, sends exactly one invocation of its probe.
C21_OneInvocationPerClick ==
    [][clicks' = clicks + 1
          => LET added == sent' (-) sent
             IN  (\E r \in BagToSet(added) : r.key \in ProbeKeys)
                     => BagCardinality(added) = 1]_vars

----------------------------------------------------------------------------
(* C22 *)
\* C22: an inspection of the browser history that overlaps with another one
\* returns the sites it would return if it ran alone: no invocation reads,
\* overwrites or deletes the temporary copy of the other.
C22_OverlappingRunsAsIfAlone ==
    \A i \in DOMAIN runs :
        runs[i].pc = "done"
            => runs[i].sites =
                   IF runVariant = "A"
                   THEN checkBrowserHistoryFiles(<<chromeHistory>>, 1, NothingScanned).sites
                   ELSE detectMinecraftCheatsB(<<chromeHistory>>, 1, NothingScanned).sites

----------------------------------------------------------------------------
(* C23 *)
\* C23: detectStoppedServices returns a list, and every element of it is a
\* service of the watch-list that the operating system reports as stopped or
\* disabled.
C23_ListOfWatchedStoppedServices ==
    \A v \in DOMAIN stoppedReply :
        /\ stoppedReply[v].isList
        /\ \A k \in 1..Len(stoppedReply[v].items) :
               LET s == stoppedReply[v].items[k]
               IN  /\ IF v = "A" THEN isMonitored(s.Name) ELSE isRelated(s)
                   /\ \E j \in 1..Len(osServices) :
                          /\ osServices[j] = s
                          /\ s.Status = "Stopped" \/ s.StartType = "Disabled"

----------------------------------------------------------------------------
(* C24 *)
\* C24 as stated: the export-results handler changes a file only when the save
\* dialog returned a path; whenever the dialog returned a path, that file holds
\* the JSON text of the data received and the reply is {success: true, path};
\* when the dialog was cancelled nothing is written and the reply is
\* {canceled: true}.
C24_PathMeansWrittenAndSuccess ==
    (handled.channel = "export-results" /\ exportRun.ran) =>
        LET dialog == exportRun.dialog
            chosen == ~dialog.throws /\ dialog.value.data # NoData
            cancelled == ~dialog.throws /\ dialog.value.data = NoData
        IN  /\ disk # exportRun.before => chosen
            /\ chosen =>
                   /\ disk = [exportRun.before EXCEPT
                                 ![dialog.value.data] = JSONstringify(exportRun.data)]
                   /\ handled.settled =
                          Fulfilled(ResultValue([success |-> TRUE, path |-> dialog.value.data]))
            /\ cancelled =>
                   /\ disk = exportRun.before
                   /\ handled.settled = Fulfilled(ResultValue([canceled |-> TRUE]))

\* C24, amended: as above when writing succeeds; when fs.promises.writeFile
\* rejects, the reply is {error: message} and no file holds the data.
C24_PathWrittenUnlessWriteFails ==
    (handled.channel = "export-results" /\ exportRun.ran) =>
        LET dialog == exportRun.dialog
            chosen == ~dialog.throws /\ dialog.value.data # NoData
            cancelled == ~dialog.throws /\ dialog.value.data = NoData
        IN  /\ disk # exportRun.before => chosen /\ ~exportRun.write.throws
            /\ (chosen /\ ~exportRun.write.throws) =>
                   /\ disk = [exportRun.before EXCEPT
                                 ![dialog.value.data] = JSONstringify(exportRun.data)]
                   /\ handled.settled =
                          Fulfilled(ResultValue([success |-> TRUE, path |-> dialog.value.data]))
            /\ (chosen /\ exportRun.write.throws) =>
                   /\ disk = exportRun.before
                   /\ handled.settled = Fulfilled(ErrorValue(exportRun.write.error.message))
            /\ cancelled =>
                   /\ disk = exportRun.before
                   /\ handled.settled = Fulfilled(ResultValue([canceled |-> TRUE]))

\* An export of one probe's result to notes.txt after an earlier export to
\* kenibox_results.json.
C24_Witness ==
    /\ handled.channel = "export-results"
    /\ exportRun.ran
    /\ exportRun.dialog = Returns(ResultValue("notes.txt"))
    /\ ~exportRun.write.throws
    /\ DOMAIN exportRun.data.results = {"jarFiles"}
    /\ exportRun.before["kenibox_results.json"] # NoExport
    /\ disk["notes.txt"] = JSONstringify(exportRun.data)

----------------------------------------------------------------------------
(* C25 *)
\* C25: once the click listener of an 'open location' link has set the link's
\* text, the text is the error mark when the path does not exist or could not
\* be opened, and the opened mark only when the location was opened.
C25_ErrorShownWhenNotOpened ==
    linkCall.pc = "shown" =>
        LET opened == location.exists /\ location.opens
        IN  /\ ~opened => linkText = "Error"
            /\ linkText = "Abierto" => opened

----------------------------------------------------------------------------
(* C26 *)
\* C26: a non-empty list returned by detectBrowsers has an entry with
\* default = true; when no detected browser is the operating system's default,
\* the first entry is the one marked.
C26_SomeBrowserIsDefault ==
    \A v \in DOMAIN detectedList :
        LET browsers == detectedList[v]
        IN  Len(browsers) > 0 =>
                /\ \E k \in 1..Len(browsers) : browsers[k].default
                /\ (\A k \in 1..Len(browsers) : browsers[k].name # osDefault)
                       => browsers[1].default

----------------------------------------------------------------------------
(* C27 *)
\* C27: once no request of a time-window probe is pending, the reply shown in
\* its panel and the reply stored for the export are those of the request made
\* for the window of the button that is active window.
C27_SettledShowsActiveWindow ==
    \A key \in TimeProbes :
        LET pending == {r \in BagToSet(sent) : r.key = key}
            window     == WindowOf(key, active[key])
        IN  pending = {} =>
                /\ resultWindow[key].panel \subseteq {window}
                /\ resultWindow[key].stored \subseteq {window}

----------------------------------------------------------------------------
(* C28 *)
\* C28: after any clicks on the buttons of a time-window group exactly one
\* button of the group is active, the one clicked last, and every invocation a
\* click makes of the group's probe carries that button's value.
C28_LastClickedIsActiveAndSent ==
    /\ [](\A key \in TimeProbes :
              lastClicked[key] # {} =>
                  /\ active[key] = lastClicked[key]
                  /\ Cardinality(active[key] \cap GroupOf(key)) = 1)
    /\ [][clicks' = clicks + 1 =>
              \A r \in BagToSet(sent' (-) sent) :
                  r.key \in TimeProbes => lastClicked'[r.key] = {r.arg}]_vars

\* Two different buttons of the deleted-files group were clicked, 120 last; both
\* invocations are in flight, each with its own button's value.
C28_Witness ==
    /\ lastClicked["deletedFiles"] = {120}
    /\ active["deletedFiles"] = {120}
    /\ Request("deletedFiles", 30, NoExport) \in BagToSet(sent)
    /\ Request("deletedFiles", 120, NoExport) \in BagToSet(sent)

----------------------------------------------------------------------------
----------------------------------------------------------------------------
(* C30 *)
\* C30: in every value checkScreenRecording returns, in either variant,
\* recording is true exactly when the applications list is not empty.
C30_RecordingIffApplications ==
    \A v \in DOMAIN recordingStatus :
        recordingStatus[v].recording <=> Len(recordingStatus[v].applications) > 0

====
